---- MODULE Spec2Model ----
(***************************************************************************)
(* term-xlsx: the interactive grid editor of src/src/app.rs, the viewport  *)
(* computation of src/src/ui.rs and the event loop of src/src/main.rs.     *)
(*                                                                         *)
(* The App struct is modelled field by field.  Every method of App is an   *)
(* operator from an App record to an App record, so that the sequential    *)
(* composition inside on_key is kept as written in the source.  The        *)
(* Document (umya_spreadsheet) is modelled by its contract: a book is a    *)
(* sequence of sheets, a sheet a collection of cells with a raw value, a   *)
(* formula and a style (pattern fill, fill foreground colour, font         *)
(* colour); get_cell_mut creates the cell it is asked for, set_value       *)
(* stores the value and drops the formula.                                 *)
(***************************************************************************)
EXTENDS Integers, Sequences, FiniteSets, TLC

(***************************************************************************)
(* Program constants (src/src/app.rs:8-14).  MAX_ROWS and MAX_COLUMNS are  *)
(* 65536 and 256 in the source; the model scales them down and lets a      *)
(* loaded sheet be one row and one column larger than the editor's limits, *)
(* as an .xlsx sheet (1048576 x 16384) is larger than the editor's limits. *)
(***************************************************************************)
DEFAULT_COLUMN_WIDTH == 10
COLUMN_WIDTH_STEP == 2
MAX_COLUMN_WIDTH == 50
MAX_COLUMNS == 2
MAX_ROWS == 3

\* Number of key events the event loop reads in one explored session, for
\* each specification.
MaxKeys == 3
MaxNavKeys == 5
MaxMarkKeys == 4
MaxClipKeys == 5
MaxWidthKeys == 5
MaxSheetKeys == 5
MaxCodeLen == 4
MaxResizeKeys == 21
MaxLayoutKeys == 3

SheetRows == MAX_ROWS + 1
SheetCols == MAX_COLUMNS + 1
Pos == (1..SheetRows) \X (1..SheetCols)

Max(x, y) == IF x >= y THEN x ELSE y
Min(x, y) == IF x <= y THEN x ELSE y
SetMax(S) == IF S = {} THEN 0 ELSE CHOOSE x \in S : \A y \in S : y <= x

(***************************************************************************)
(* Strings the program inspects character by character (colour values)     *)
(* are sequences of one-character strings.                                 *)
(***************************************************************************)
UpperChar(c) ==
    IF c = "a" THEN "A" ELSE IF c = "b" THEN "B" ELSE IF c = "c" THEN "C"
    ELSE IF c = "d" THEN "D" ELSE IF c = "e" THEN "E" ELSE IF c = "f" THEN "F"
    ELSE c

to_uppercase(s) == [i \in 1..Len(s) |-> UpperChar(s[i])]

\* Colour values written by set_mark_for_selection.
ARGB_BASELINE == <<"F","F","0","0","0","0","0","1">>
ARGB_YELLOW   == <<"F","F","F","F","E","F","0","0">>
ARGB_RED      == <<"F","F","F","F","0","0","0","1">>
ARGB_GREEN    == <<"F","F","0","0","8","0","0","1">>
ARGB_BLUE     == <<"F","F","0","0","0","0","F","E">>
ARGB_BLUE_FG  == <<"F","F","F","F","F","F","F","E">>
ARGB_MAGENTA  == <<"F","F","F","F","0","0","F","E">>
\* The empty argb of a Color that was never set.
ARGB_EMPTY    == <<>>

CellMark == {"None", "YellowBg", "RedText", "GreenText", "BlueBg", "MagentaText"}

\* argb_to_bg_mark with a table of the pure colours only
argb_to_bg_mark_pure_only(argb) ==
    LET argb_upper == to_uppercase(argb) IN
    IF argb_upper \in { <<"F","F","F","F","F","F","0","0">>, <<"F","F","F","F","0","0">> }
    THEN "YellowBg"
    ELSE IF argb_upper \in { <<"F","F","0","0","0","0","F","F">>,
                             <<"0","0","0","0","F","F">>,
                             <<"F","F","0","0","B","F","F","F">>,
                             <<"0","0","B","F","F","F">> }
    THEN "BlueBg"
    ELSE "None"

argb_to_bg_mark(argb) ==
    LET argb_upper == to_uppercase(argb) IN
    IF argb_upper \in { <<"F","F","F","F","F","F","0","0">>,
                        <<"F","F","F","F","0","0">>,
                        <<"F","F","F","F","E","F","0","0">> }
    THEN "YellowBg"
    ELSE IF argb_upper \in { <<"F","F","0","0","0","0","F","F">>,
                             <<"0","0","0","0","F","F">>,
                             <<"F","F","0","0","0","0","F","E">>,
                             <<"F","F","0","0","B","F","F","F">>,
                             <<"0","0","B","F","F","F">> }
    THEN "BlueBg"
    ELSE "None"

argb_to_font_mark(argb) ==
    LET argb_upper == to_uppercase(argb) IN
    IF argb_upper \in { <<"F","F","F","F","0","0","0","0">>,
                        <<"F","F","0","0","0","0">>,
                        <<"F","F","F","F","0","0","0","1">> }
    THEN "RedText"
    ELSE IF argb_upper \in { <<"F","F","0","0","8","0","0","0">>,
                             <<"0","0","8","0","0","0">>,
                             <<"F","F","0","0","8","0","0","1">>,
                             <<"F","F","0","0","F","F","0","0">>,
                             <<"0","0","F","F","0","0">> }
    THEN "GreenText"
    ELSE IF argb_upper \in { <<"F","F","F","F","0","0","F","F">>,
                             <<"F","F","0","0","F","F">>,
                             <<"F","F","F","F","0","0","F","E">> }
    THEN "MagentaText"
    ELSE "None"

(***************************************************************************)
(* The Document.  A style holds: pattern, "absent" when the cell has no    *)
(* fill object, else the pattern type ("none", "solid"); fg, the pattern   *)
(* fill's foreground colour (ARGB_EMPTY when there is none); font, the     *)
(* font colour (ARGB_EMPTY when there is no font or no colour).            *)
(***************************************************************************)
DefaultStyle == [pattern |-> "absent", fg |-> ARGB_EMPTY, font |-> ARGB_EMPTY]
EmptyCell == [used |-> FALSE, value |-> "", formula |-> "", style |-> DefaultStyle]
BlankSheet == [p \in Pos |-> EmptyCell]

get_sheet_count(spreadsheet) == Len(spreadsheet)
has_sheet(spreadsheet, idx) == idx >= 0 /\ idx < Len(spreadsheet)
\* sheet indices are 0-based in the program
get_sheet(spreadsheet, idx) == spreadsheet[idx + 1]

get_highest_row(sheet) == SetMax({p[1] : p \in {q \in Pos : sheet[q].used}})
get_highest_column(sheet) == SetMax({p[2] : p \in {q \in Pos : sheet[q].used}})

\* the value and the formula read through get_cell_value (defaults when
\* the cell is not in the collection)
get_value(sheet, row, col) ==
    IF <<row, col>> \in Pos THEN sheet[<<row, col>>].value ELSE ""
get_formula(sheet, row, col) ==
    IF <<row, col>> \in Pos THEN sheet[<<row, col>>].formula ELSE ""

\* get_cell_mut(..).set_value(v): the cell is created, the value stored,
\* the formula removed
set_value(sheet, row, col, v) ==
    [sheet EXCEPT ![<<row, col>>] =
        [@ EXCEPT !.used = TRUE, !.value = v, !.formula = ""]]

(***************************************************************************)
(* Decoding a cell's style when a document is opened.                      *)
(***************************************************************************)
style_bg_mark(style) ==
    IF style.pattern # "absent" /\ style.fg # ARGB_EMPTY
    THEN argb_to_bg_mark(style.fg)
    ELSE "None"

style_font_mark(style) ==
    IF style.font # ARGB_EMPTY THEN argb_to_font_mark(style.font) ELSE "None"

\* decode_style with the font colour looked up first
decode_style_font_first(style) ==
    IF style_font_mark(style) # "None"
    THEN style_font_mark(style)
    ELSE style_bg_mark(style)

\* the mark the loop body of load_cell_marks_from_spreadsheet inserts for
\* one cell ("None": nothing is inserted)
decode_style(style) ==
    IF style_bg_mark(style) # "None"
    THEN style_bg_mark(style)
    ELSE style_font_mark(style)

MarkKeysOf(spreadsheet) ==
    { <<i, p[1], p[2]>> : i \in 0..(Len(spreadsheet) - 1), p \in Pos }

load_cell_marks_from_spreadsheet(spreadsheet) ==
    LET marked == { k \in MarkKeysOf(spreadsheet) :
                      /\ get_sheet(spreadsheet, k[1])[<<k[2], k[3]>>].used
                      /\ decode_style(get_sheet(spreadsheet, k[1])[<<k[2], k[3]>>].style) # "None" }
    IN [k \in marked |-> decode_style(get_sheet(spreadsheet, k[1])[<<k[2], k[3]>>].style)]

(***************************************************************************)
(* Selection (src/src/app.rs:23-55).                                       *)
(***************************************************************************)
single(row, col) == [start |-> <<row, col>>, end |-> <<row, col>>]

\* (min_row, min_col, max_row, max_col)
bounds(sel) ==
    << Min(sel.start[1], sel.end[1]), Min(sel.start[2], sel.end[2]),
       Max(sel.start[1], sel.end[1]), Max(sel.start[2], sel.end[2]) >>

(***************************************************************************)
(* Status messages: kind, and the numbers and the text formatted into it.  *)
(***************************************************************************)
NoStatus == [kind |-> "None", n |-> 0, m |-> 0, text |-> ""]
Status(kind, n, m, text) == [kind |-> kind, n |-> n, m |-> m, text |-> text]

(***************************************************************************)
(* App (src/src/app.rs:76-124).  The state of the program:                 *)
(*   spreadsheet, current_sheet_index, cursor, selection, mode, scroll,    *)
(*   textarea, should_quit, column_widths, clipboard, status_message,      *)
(*   viewport_size, cell_marks, sheet_select_index : the fields of App;    *)
(*   pc    : the position of run_app's loop ("open": before App::new,      *)
(*           "draw", "poll", "done");                                      *)
(*   nkeys : the number of events run_app has read;                        *)
(*   copied : history, the source rectangle of the last copy command and   *)
(*           the raw values its cells held when the command ran.           *)
(***************************************************************************)
VARIABLES spreadsheet, current_sheet_index, cursor, selection, mode, scroll,
          textarea, should_quit, column_widths, clipboard, status_message,
          viewport_size, cell_marks, sheet_select_index, pc, nkeys, copied

vars == << spreadsheet, current_sheet_index, cursor, selection, mode, scroll,
           textarea, should_quit, column_widths, clipboard, status_message,
           viewport_size, cell_marks, sheet_select_index, pc, nkeys, copied >>

\* the App as one record
self ==
    [ spreadsheet |-> spreadsheet, current_sheet_index |-> current_sheet_index,
      cursor |-> cursor, selection |-> selection, mode |-> mode,
      scroll |-> scroll, textarea |-> textarea, should_quit |-> should_quit,
      column_widths |-> column_widths, clipboard |-> clipboard,
      status_message |-> status_message, viewport_size |-> viewport_size,
      cell_marks |-> cell_marks, sheet_select_index |-> sheet_select_index ]

\* App::new on an opened (or freshly created) book
new(book) ==
    [ spreadsheet |-> book, current_sheet_index |-> 0,
      cursor |-> <<1, 1>>, selection |-> single(1, 1), mode |-> "View",
      scroll |-> <<0, 0>>, textarea |-> "", should_quit |-> FALSE,
      column_widths |-> <<>>, clipboard |-> <<>>,
      status_message |-> NoStatus, viewport_size |-> <<20, 10>>,
      cell_marks |-> load_cell_marks_from_spreadsheet(book),
      sheet_select_index |-> 0 ]

clamp(x, lo, hi) == IF x < lo THEN lo ELSE IF x > hi THEN hi ELSE x
saturating_sub(x, y) == IF x > y THEN x - y ELSE 0

\* adjust_scroll backing up to the cursor's own index, one short of
\* showing the cursor
adjust_scroll_short(a) ==
    LET row == a.cursor[1]
        col == a.cursor[2]
        view_rows == a.viewport_size[1]
        view_cols == a.viewport_size[2]
        s0 == IF row <= a.scroll[1] THEN row
              ELSE IF row > a.scroll[1] + view_rows THEN row - view_rows
              ELSE a.scroll[1]
        s1 == IF col <= a.scroll[2] THEN col
              ELSE IF col > a.scroll[2] + view_cols THEN col - view_cols
              ELSE a.scroll[2]
    IN [a EXCEPT !.scroll = <<s0, s1>>]

adjust_scroll(a) ==
    LET row == a.cursor[1]
        col == a.cursor[2]
        view_rows == a.viewport_size[1]
        view_cols == a.viewport_size[2]
        s0 == IF row <= a.scroll[1] THEN saturating_sub(row, 1)
              ELSE IF row > a.scroll[1] + view_rows THEN row - view_rows
              ELSE a.scroll[1]
        s1 == IF col <= a.scroll[2] THEN saturating_sub(col, 1)
              ELSE IF col > a.scroll[2] + view_cols THEN col - view_cols
              ELSE a.scroll[2]
    IN [a EXCEPT !.scroll = <<s0, s1>>]

\* move_cursor moving only the selection's end whatever the flag says
move_cursor_keep_anchor(a, dx, dy, extend_selection) ==
    LET new_row == clamp(a.cursor[1] + dy, 1, MAX_ROWS)
        new_col == clamp(a.cursor[2] + dx, 1, MAX_COLUMNS)
        moved == [a EXCEPT !.cursor = <<new_row, new_col>>,
                           !.selection = [@ EXCEPT !.end = <<new_row, new_col>>]]
    IN adjust_scroll(moved)

\* move_cursor that, when extending, moves the selection's start and
\* leaves its end
move_cursor_extend_start(a, dx, dy, extend_selection) ==
    LET new_row == clamp(a.cursor[1] + dy, 1, MAX_ROWS)
        new_col == clamp(a.cursor[2] + dx, 1, MAX_COLUMNS)
        moved == [a EXCEPT !.cursor = <<new_row, new_col>>,
                           !.selection =
                               IF extend_selection
                               THEN [@ EXCEPT !.start = <<new_row, new_col>>]
                               ELSE single(new_row, new_col)]
    IN adjust_scroll(moved)

move_cursor(a, dx, dy, extend_selection) ==
    LET new_row == clamp(a.cursor[1] + dy, 1, MAX_ROWS)
        new_col == clamp(a.cursor[2] + dx, 1, MAX_COLUMNS)
        moved == [a EXCEPT !.cursor = <<new_row, new_col>>,
                           !.selection =
                               IF extend_selection
                               THEN [@ EXCEPT !.end = <<new_row, new_col>>]
                               ELSE single(new_row, new_col)]
    IN adjust_scroll(moved)

jump_to_start(a) ==
    [a EXCEPT !.cursor = <<1, 1>>, !.selection = single(1, 1), !.scroll = <<0, 0>>]

\* jump_to_end limited to MAX_ROWS and MAX_COLUMNS as move_cursor is
jump_to_end_clamped(a) ==
    IF has_sheet(a.spreadsheet, a.current_sheet_index)
    THEN LET sheet == get_sheet(a.spreadsheet, a.current_sheet_index)
             row == clamp(get_highest_row(sheet), 1, MAX_ROWS)
             col == clamp(get_highest_column(sheet), 1, MAX_COLUMNS)
         IN adjust_scroll([a EXCEPT !.cursor = <<row, col>>,
                                    !.selection = single(row, col)])
    ELSE a

jump_to_end(a) ==
    IF has_sheet(a.spreadsheet, a.current_sheet_index)
    THEN LET sheet == get_sheet(a.spreadsheet, a.current_sheet_index)
             row == Max(get_highest_row(sheet), 1)
             col == Max(get_highest_column(sheet), 1)
         IN adjust_scroll([a EXCEPT !.cursor = <<row, col>>,
                                    !.selection = single(row, col)])
    ELSE a

\* jump_to_row_start that moves the cursor and leaves the selection
jump_to_row_start_cursor_only(a) ==
    adjust_scroll([a EXCEPT !.cursor = <<a.cursor[1], 1>>])

jump_to_row_start(a) ==
    adjust_scroll([a EXCEPT !.cursor = <<a.cursor[1], 1>>,
                            !.selection = single(a.cursor[1], 1)])

jump_to_row_end(a) ==
    IF has_sheet(a.spreadsheet, a.current_sheet_index)
    THEN LET sheet == get_sheet(a.spreadsheet, a.current_sheet_index)
             col == Max(get_highest_column(sheet), 1)
         IN adjust_scroll([a EXCEPT !.cursor = <<a.cursor[1], col>>,
                                    !.selection = single(a.cursor[1], col)])
    ELSE a

clear_selection(a) ==
    [a EXCEPT !.selection = single(a.cursor[1], a.cursor[2])]

next_sheet(a) ==
    LET count == get_sheet_count(a.spreadsheet) IN
    IF count > 0
    THEN [a EXCEPT !.current_sheet_index = (a.current_sheet_index + 1) % count]
    ELSE a

prev_sheet(a) ==
    LET count == get_sheet_count(a.spreadsheet) IN
    IF count > 0
    THEN [a EXCEPT !.current_sheet_index =
              IF a.current_sheet_index = 0 THEN count - 1
              ELSE a.current_sheet_index - 1]
    ELSE a

is_formula_cell(a, col, row) ==
    IF has_sheet(a.spreadsheet, a.current_sheet_index)
    THEN get_formula(get_sheet(a.spreadsheet, a.current_sheet_index), row, col) # ""
    ELSE FALSE

\* enter_edit_mode without the test for a formula cell
enter_edit_mode_unchecked(a) ==
    IF has_sheet(a.spreadsheet, a.current_sheet_index)
    THEN [a EXCEPT !.mode = "Edit",
                   !.textarea =
                       get_value(get_sheet(a.spreadsheet, a.current_sheet_index),
                                 a.cursor[1], a.cursor[2])]
    ELSE [a EXCEPT !.mode = "Edit"]

enter_edit_mode(a) ==
    IF is_formula_cell(a, a.cursor[2], a.cursor[1])
    THEN IF has_sheet(a.spreadsheet, a.current_sheet_index)
         THEN [a EXCEPT !.status_message =
                  Status("Formula (read-only)", 0, 0,
                         get_formula(get_sheet(a.spreadsheet, a.current_sheet_index),
                                     a.cursor[1], a.cursor[2]))]
         ELSE a
    ELSE IF has_sheet(a.spreadsheet, a.current_sheet_index)
         THEN [a EXCEPT !.mode = "Edit",
                        !.textarea =
                            get_value(get_sheet(a.spreadsheet, a.current_sheet_index),
                                      a.cursor[1], a.cursor[2])]
         ELSE [a EXCEPT !.mode = "Edit"]

\* save_cell_value with the cell coordinate given as (row, col) where the
\* Document takes (col, row)
save_cell_value_transposed(a) ==
    IF has_sheet(a.spreadsheet, a.current_sheet_index)
    THEN IF <<a.cursor[2], a.cursor[1]>> \in Pos
         THEN [a EXCEPT !.spreadsheet[a.current_sheet_index + 1] =
                  set_value(@, a.cursor[2], a.cursor[1], a.textarea)]
         ELSE a
    ELSE a

save_cell_value(a) ==
    IF has_sheet(a.spreadsheet, a.current_sheet_index)
    THEN [a EXCEPT !.spreadsheet[a.current_sheet_index + 1] =
              set_value(@, a.cursor[1], a.cursor[2], a.textarea)]
    ELSE a

\* save_file with a writer that never reports a failure
save_file_always_ok(a, write_ok) == TRUE

\* Result<()> of umya_spreadsheet::writer::xlsx::write: App is borrowed
\* immutably, the outcome is the collaborator's
save_file(a, write_ok) == write_ok

\* HashMap insert / remove / get on a function whose domain is the key set
map_insert(m, k, v) == [x \in (DOMAIN m) \cup {k} |-> IF x = k THEN v ELSE m[x]]
map_remove(m, k) == [x \in (DOMAIN m) \ {k} |-> m[x]]
map_get_or(m, k, default) == IF k \in DOMAIN m THEN m[k] ELSE default

MIN_COLUMN_WIDTH == 3

widen_column(a) ==
    LET col == a.cursor[2]
        current == map_get_or(a.column_widths, col, DEFAULT_COLUMN_WIDTH)
        new_width == Min(current + COLUMN_WIDTH_STEP, MAX_COLUMN_WIDTH)
        widened == [a EXCEPT !.column_widths = map_insert(@, col, new_width)]
    IN IF new_width >= MAX_COLUMN_WIDTH
       THEN [widened EXCEPT !.status_message =
                Status("Column width at maximum", MAX_COLUMN_WIDTH, 0, "")]
       ELSE widened

\* shrink_column that stores the minimum width instead of removing the entry
shrink_column_storing_min(a) ==
    LET col == a.cursor[2]
        current == map_get_or(a.column_widths, col, DEFAULT_COLUMN_WIDTH)
        new_width == Max(saturating_sub(current, COLUMN_WIDTH_STEP), MIN_COLUMN_WIDTH)
    IN IF new_width <= MIN_COLUMN_WIDTH
       THEN [a EXCEPT !.column_widths = map_insert(@, col, new_width),
                      !.status_message =
                          Status("Column width at minimum", MIN_COLUMN_WIDTH, 0, "")]
       ELSE [a EXCEPT !.column_widths = map_insert(@, col, new_width)]

shrink_column(a) ==
    LET col == a.cursor[2]
        current == map_get_or(a.column_widths, col, DEFAULT_COLUMN_WIDTH)
        min_width == MIN_COLUMN_WIDTH
        new_width == Max(saturating_sub(current, COLUMN_WIDTH_STEP), min_width)
    IN IF new_width <= min_width
       THEN [a EXCEPT !.column_widths = map_remove(@, col),
                      !.status_message =
                          Status("Column width at minimum", min_width, 0, "")]
       ELSE [a EXCEPT !.column_widths = map_insert(@, col, new_width)]

get_column_width(a, col) == map_get_or(a.column_widths, col, DEFAULT_COLUMN_WIDTH)

\* copy_selection reading from the selection's anchor instead of the
\* top-left corner of its bounds
copy_selection_from_anchor(a) ==
    LET b == bounds(a.selection)
        rows == b[3] - b[1] + 1
        cols == b[4] - b[2] + 1
        data == IF has_sheet(a.spreadsheet, a.current_sheet_index)
                THEN LET sheet == get_sheet(a.spreadsheet, a.current_sheet_index) IN
                     [i \in 1..rows |->
                        [j \in 1..cols |->
                            get_value(sheet, a.selection.start[1] + i - 1,
                                      a.selection.start[2] + j - 1)]]
                ELSE <<>>
    IN [a EXCEPT !.clipboard = data,
                 !.status_message = Status("Copied", rows * cols, 0, "")]

copy_selection(a) ==
    LET b == bounds(a.selection)
        min_row == b[1]
        min_col == b[2]
        max_row == b[3]
        max_col == b[4]
        data == IF has_sheet(a.spreadsheet, a.current_sheet_index)
                THEN LET sheet == get_sheet(a.spreadsheet, a.current_sheet_index) IN
                     [i \in 1..(max_row - min_row + 1) |->
                        [j \in 1..(max_col - min_col + 1) |->
                            get_value(sheet, min_row + i - 1, min_col + j - 1)]]
                ELSE <<>>
        cells == (max_row - min_row + 1) * (max_col - min_col + 1)
    IN [a EXCEPT !.clipboard = data,
                 !.status_message = Status("Copied", cells, 0, "")]

\* paste_into without the test against MAX_ROWS and MAX_COLUMNS
paste_into_unclipped(sheet, data, start_row, start_col) ==
    [p \in Pos |->
        LET dr == p[1] - start_row
            dc == p[2] - start_col
        IN IF /\ dr >= 0 /\ dr < Len(data)
              /\ dc >= 0 /\ dc < Len(data[dr + 1])
           THEN [sheet[p] EXCEPT !.used = TRUE, !.value = data[dr + 1][dc + 1],
                                 !.formula = ""]
           ELSE sheet[p]]

\* paste_into replacing each target cell by a fresh cell with the value
paste_into_fresh_cells(sheet, data, start_row, start_col) ==
    [p \in Pos |->
        LET dr == p[1] - start_row
            dc == p[2] - start_col
        IN IF /\ dr >= 0 /\ dr < Len(data)
              /\ dc >= 0 /\ dc < Len(data[dr + 1])
              /\ p[1] <= MAX_ROWS /\ p[2] <= MAX_COLUMNS
           THEN [used |-> TRUE, value |-> data[dr + 1][dc + 1], formula |-> "",
                 style |-> DefaultStyle]
           ELSE sheet[p]]

\* the sheet after the two enumerate() loops of paste_clipboard: the
\* targets of different (dr, dc) are different cells
paste_into(sheet, data, start_row, start_col) ==
    [p \in Pos |->
        LET dr == p[1] - start_row
            dc == p[2] - start_col
        IN IF /\ dr >= 0 /\ dr < Len(data)
              /\ dc >= 0 /\ dc < Len(data[dr + 1])
              /\ p[1] <= MAX_ROWS /\ p[2] <= MAX_COLUMNS
           THEN [sheet[p] EXCEPT !.used = TRUE, !.value = data[dr + 1][dc + 1],
                                 !.formula = ""]
           ELSE sheet[p]]

\* paste_clipboard without the early return on an empty clipboard
paste_clipboard_unguarded(a) ==
    LET pasted == IF has_sheet(a.spreadsheet, a.current_sheet_index)
                  THEN [a EXCEPT !.spreadsheet[a.current_sheet_index + 1] =
                           paste_into(@, a.clipboard, a.cursor[1], a.cursor[2])]
                  ELSE a
        rows == Len(a.clipboard)
        cols == IF Len(a.clipboard) = 0 THEN 0 ELSE Len(a.clipboard[1])
    IN [pasted EXCEPT !.status_message = Status("Pasted", rows, cols, "")]

\* paste_clipboard that empties the clipboard once pasted
paste_clipboard_consuming(a) ==
    IF Len(a.clipboard) = 0
    THEN [a EXCEPT !.status_message = Status("Clipboard is empty", 0, 0, "")]
    ELSE LET pasted == IF has_sheet(a.spreadsheet, a.current_sheet_index)
                       THEN [a EXCEPT !.spreadsheet[a.current_sheet_index + 1] =
                                paste_into(@, a.clipboard, a.cursor[1], a.cursor[2])]
                       ELSE a
         IN [pasted EXCEPT !.clipboard = <<>>,
                           !.status_message =
                               Status("Pasted", Len(a.clipboard), Len(a.clipboard[1]), "")]

paste_clipboard(a) ==
    IF Len(a.clipboard) = 0
    THEN [a EXCEPT !.status_message = Status("Clipboard is empty", 0, 0, "")]
    ELSE LET start_row == a.cursor[1]
             start_col == a.cursor[2]
             pasted == IF has_sheet(a.spreadsheet, a.current_sheet_index)
                       THEN [a EXCEPT !.spreadsheet[a.current_sheet_index + 1] =
                                paste_into(@, a.clipboard, start_row, start_col)]
                       ELSE a
             rows == Len(a.clipboard)
             cols == IF Len(a.clipboard) = 0 THEN 0 ELSE Len(a.clipboard[1])
         IN [pasted EXCEPT !.status_message = Status("Pasted", rows, cols, "")]

\* the style set_mark_for_selection leaves on one cell
mark_style(style, mark) ==
    IF mark = "None"
    THEN [style EXCEPT !.font = ARGB_BASELINE, !.pattern = "none"]
    ELSE IF mark = "YellowBg"
    THEN [style EXCEPT !.fg = ARGB_YELLOW, !.pattern = "solid", !.font = ARGB_BASELINE]
    ELSE IF mark = "RedText"
    THEN [style EXCEPT !.font = ARGB_RED]
    ELSE IF mark = "GreenText"
    THEN [style EXCEPT !.font = ARGB_GREEN]
    ELSE IF mark = "BlueBg"
    THEN [style EXCEPT !.fg = ARGB_BLUE, !.pattern = "solid", !.font = ARGB_BLUE_FG]
    ELSE [style EXCEPT !.font = ARGB_MAGENTA]

mark_name(mark) ==
    IF mark = "None" THEN "cleared"
    ELSE IF mark = "YellowBg" THEN "yellow bg"
    ELSE IF mark = "RedText" THEN "red text"
    ELSE IF mark = "GreenText" THEN "green text"
    ELSE IF mark = "BlueBg" THEN "blue bg"
    ELSE "magenta text"

\* set_mark_for_selection looping from the selection's anchor to its end
\* instead of over its bounds
set_mark_for_selection_from_anchor(a, mark) ==
    LET b == << a.selection.start[1], a.selection.start[2],
                a.selection.end[1], a.selection.end[2] >>
        sheet_idx == a.current_sheet_index
        rect == { p \in Pos : p[1] >= b[1] /\ p[1] <= b[3] /\ p[2] >= b[2] /\ p[2] <= b[4] }
        keys == { <<sheet_idx, p[1], p[2]>> : p \in rect }
        marks == IF mark = "None"
                 THEN [k \in (DOMAIN a.cell_marks) \ keys |-> a.cell_marks[k]]
                 ELSE [k \in (DOMAIN a.cell_marks) \cup keys |->
                          IF k \in keys THEN mark ELSE a.cell_marks[k]]
        book == [a.spreadsheet EXCEPT ![sheet_idx + 1] =
                    [p \in Pos |->
                        IF p \in rect
                        THEN [@[p] EXCEPT !.used = TRUE,
                                          !.style = mark_style(@, mark)]
                        ELSE @[p]]]
    IN [a EXCEPT !.cell_marks = marks, !.spreadsheet = book,
                 !.status_message =
                     Status("Marked", Cardinality(rect), 0, mark_name(mark))]

set_mark_for_selection(a, mark) ==
    LET b == bounds(a.selection)
        sheet_idx == a.current_sheet_index
        rect == { p \in Pos : p[1] >= b[1] /\ p[1] <= b[3] /\ p[2] >= b[2] /\ p[2] <= b[4] }
        keys == { <<sheet_idx, p[1], p[2]>> : p \in rect }
        exists == has_sheet(a.spreadsheet, sheet_idx)
        marks == IF ~exists THEN a.cell_marks
                 ELSE IF mark = "None"
                 THEN [k \in (DOMAIN a.cell_marks) \ keys |-> a.cell_marks[k]]
                 ELSE [k \in (DOMAIN a.cell_marks) \cup keys |->
                          IF k \in keys THEN mark ELSE a.cell_marks[k]]
        book == IF ~exists THEN a.spreadsheet
                ELSE [a.spreadsheet EXCEPT ![sheet_idx + 1] =
                        [p \in Pos |->
                            IF p \in rect
                            THEN [@[p] EXCEPT !.used = TRUE,
                                              !.style = mark_style(@, mark)]
                            ELSE @[p]]]
        count == IF exists THEN Cardinality(rect) ELSE 0
    IN [a EXCEPT !.cell_marks = marks, !.spreadsheet = book,
                 !.status_message = Status("Marked", count, 0, mark_name(mark))]

get_cell_mark(a, row, col) ==
    map_get_or(a.cell_marks, <<a.current_sheet_index, row, col>>, "None")

enter_sheet_select_mode(a) ==
    [a EXCEPT !.sheet_select_index = a.current_sheet_index, !.mode = "SheetSelect"]

\* i32::rem_euclid with a positive modulus
rem_euclid(x, n) == x % n

\* sheet_select_move stopping at the first and the last sheet instead of
\* wrapping
sheet_select_move_stopping(a, delta) ==
    LET count == get_sheet_count(a.spreadsheet) IN
    IF count = 0 THEN a
    ELSE [a EXCEPT !.sheet_select_index = clamp(a.sheet_select_index + delta, 0, count - 1)]

sheet_select_move(a, delta) ==
    LET count == get_sheet_count(a.spreadsheet) IN
    IF count = 0 THEN a
    ELSE [a EXCEPT !.sheet_select_index = rem_euclid(a.sheet_select_index + delta, count)]

\* confirm_sheet_selection that also puts the cursor back on (1,1)
confirm_sheet_selection_home(a) ==
    [a EXCEPT !.current_sheet_index = a.sheet_select_index, !.mode = "View",
              !.cursor = <<1, 1>>, !.selection = single(1, 1), !.scroll = <<0, 0>>]

confirm_sheet_selection(a) ==
    [a EXCEPT !.current_sheet_index = a.sheet_select_index, !.mode = "View"]

(***************************************************************************)
(* Key events.  A KeyCode::Char(c) is the one-letter string c; the other   *)
(* key codes carry their names.  "x" stands for every character and        *)
(* "Backspace" for every named key that no match arm names.                *)
(***************************************************************************)
KeyCodes ==
    { "w", "a", "s", "d", "c", "v", "e", "r", "x",
      "1", "2", "3", "4", "5", "6",
      "F2", "F4", "F5", "F6", "Enter", "Tab", "BackTab",
      "Left", "Right", "Up", "Down", "PageUp", "PageDown",
      "Home", "End", "Esc", "Backspace" }

Keys == [code : KeyCodes, ctrl : BOOLEAN, shift : BOOLEAN, press : {TRUE}]
          \cup { [code |-> "Down", ctrl |-> FALSE, shift |-> FALSE, press |-> FALSE] }

\* Values a cell or the edit buffer can hold.
Values == {"", "a", "b"}

Cmd(op, dx, dy, ext, mark) == [op |-> op, dx |-> dx, dy |-> dy, ext |-> ext, mark |-> mark]
Op(op) == Cmd(op, 0, 0, FALSE, "None")
Move(dx, dy, ext) == Cmd("move_cursor", dx, dy, ext, "None")

\* the arm of `match key.code` that on_key takes in Mode::View, in the
\* order of the arms
dispatch_view(key) ==
    LET code == key.code
        ctrl == key.ctrl
        shift == key.shift
    IN
    IF code = "w" /\ ctrl THEN Op("quit")
    ELSE IF code = "s" /\ ctrl THEN Op("save")
    ELSE IF code = "c" /\ ~ctrl THEN Op("copy_selection")
    ELSE IF code = "F5" THEN Op("copy_selection")
    ELSE IF code = "v" /\ ~ctrl THEN Op("paste_clipboard")
    ELSE IF code = "F6" THEN Op("paste_clipboard")
    ELSE IF code = "e" /\ ~ctrl /\ ~shift THEN Op("widen_column")
    ELSE IF code = "r" /\ ~ctrl /\ ~shift THEN Op("shrink_column")
    ELSE IF code = "F2" THEN Op("enter_edit_mode")
    ELSE IF code = "w" /\ ~ctrl /\ shift THEN Move(0, -1, TRUE)
    ELSE IF code = "s" /\ ~ctrl /\ shift THEN Move(0, 1, TRUE)
    ELSE IF code = "a" /\ ~ctrl /\ shift THEN Move(-1, 0, TRUE)
    ELSE IF code = "d" /\ ~ctrl /\ shift THEN Move(1, 0, TRUE)
    ELSE IF code = "w" /\ ~ctrl THEN Move(0, -1, FALSE)
    ELSE IF code = "a" /\ ~ctrl THEN Move(-1, 0, FALSE)
    ELSE IF code = "s" /\ ~ctrl THEN Move(0, 1, FALSE)
    ELSE IF code = "d" /\ ~ctrl THEN Move(1, 0, FALSE)
    ELSE IF code = "Enter" /\ shift THEN Move(0, -1, FALSE)
    ELSE IF code = "Enter" THEN Move(0, 1, FALSE)
    ELSE IF code = "Left" /\ shift THEN Move(-1, 0, TRUE)
    ELSE IF code = "Right" /\ shift THEN Move(1, 0, TRUE)
    ELSE IF code = "Up" /\ shift THEN Move(0, -1, TRUE)
    ELSE IF code = "Down" /\ shift THEN Move(0, 1, TRUE)
    ELSE IF code = "Left" THEN Move(-1, 0, FALSE)
    ELSE IF code = "Right" THEN Move(1, 0, FALSE)
    ELSE IF code = "Up" THEN Move(0, -1, FALSE)
    ELSE IF code = "Down" THEN Move(0, 1, FALSE)
    ELSE IF code = "Tab" /\ shift THEN Move(-1, 0, FALSE)
    ELSE IF code = "Tab" THEN Move(1, 0, FALSE)
    ELSE IF code = "BackTab" THEN Move(-1, 0, FALSE)
    ELSE IF code = "PageUp" THEN Op("prev_sheet")
    ELSE IF code = "PageDown" THEN Op("next_sheet")
    ELSE IF code = "Home" /\ ctrl THEN Op("jump_to_start")
    ELSE IF code = "End" /\ ctrl THEN Op("jump_to_end")
    ELSE IF code = "Home" THEN Op("jump_to_row_start")
    ELSE IF code = "End" THEN Op("jump_to_row_end")
    ELSE IF code = "Esc" THEN Op("clear_selection")
    ELSE IF code = "1" THEN Cmd("set_mark", 0, 0, FALSE, "None")
    ELSE IF code = "2" THEN Cmd("set_mark", 0, 0, FALSE, "YellowBg")
    ELSE IF code = "3" THEN Cmd("set_mark", 0, 0, FALSE, "RedText")
    ELSE IF code = "4" THEN Cmd("set_mark", 0, 0, FALSE, "GreenText")
    ELSE IF code = "5" THEN Cmd("set_mark", 0, 0, FALSE, "BlueBg")
    ELSE IF code = "6" THEN Cmd("set_mark", 0, 0, FALSE, "MagentaText")
    ELSE IF code = "F4" THEN Op("enter_sheet_select_mode")
    ELSE Op("nop")

dispatch_sheet_select(key) ==
    IF key.code = "Esc" THEN Op("cancel_select")
    ELSE IF key.code = "Enter" THEN Op("confirm_sheet_selection")
    ELSE IF key.code \in {"w", "Up"} THEN Cmd("sheet_select_move", 0, -1, FALSE, "None")
    ELSE IF key.code \in {"s", "Down"} THEN Cmd("sheet_select_move", 0, 1, FALSE, "None")
    ELSE Op("nop")

\* dispatch_edit with BackTab committing as Tab does
dispatch_edit_backtab(key) ==
    IF key.code = "Esc" THEN Op("cancel_edit")
    ELSE IF key.code = "Enter" THEN Cmd("commit", 0, 1, FALSE, "None")
    ELSE IF key.code = "Tab" THEN Cmd("commit", 1, 0, FALSE, "None")
    ELSE IF key.code = "BackTab" THEN Cmd("commit", -1, 0, FALSE, "None")
    ELSE Op("input")

\* dispatch_edit in which Esc commits the buffer
dispatch_edit_esc_commits(key) ==
    IF key.code = "Esc" THEN Cmd("commit", 0, 0, FALSE, "None")
    ELSE IF key.code = "Enter" THEN Cmd("commit", 0, 1, FALSE, "None")
    ELSE IF key.code = "Tab" THEN Cmd("commit", 1, 0, FALSE, "None")
    ELSE Op("input")

dispatch_edit(key) ==
    IF key.code = "Esc" THEN Op("cancel_edit")
    ELSE IF key.code = "Enter" THEN Cmd("commit", 0, 1, FALSE, "None")
    ELSE IF key.code = "Tab" THEN Cmd("commit", 1, 0, FALSE, "None")
    ELSE Op("input")

\* the arm on_key takes for a key in a mode ("ignored": the early return)
dispatch(m, key) ==
    IF ~key.press THEN Op("ignored")
    ELSE IF m = "View" THEN dispatch_view(key)
    ELSE IF m = "SheetSelect" THEN dispatch_sheet_select(key)
    ELSE dispatch_edit(key)

\* the body of the arm.  lib holds what the collaborators answer: text,
\* the content tui_textarea's input() leaves in the buffer, and write_ok,
\* whether the xlsx writer succeeds
run_command(a, cmd, lib) ==
    IF cmd.op = "quit" THEN [a EXCEPT !.should_quit = TRUE]
    ELSE IF cmd.op = "save" THEN
        IF save_file(a, lib.write_ok)
        THEN [a EXCEPT !.status_message = Status("Saved", 0, 0, "")]
        ELSE [a EXCEPT !.status_message = Status("Error", 0, 0, "Failed to save file")]
    ELSE IF cmd.op = "copy_selection" THEN copy_selection(a)
    ELSE IF cmd.op = "paste_clipboard" THEN paste_clipboard(a)
    ELSE IF cmd.op = "widen_column" THEN widen_column(a)
    ELSE IF cmd.op = "shrink_column" THEN shrink_column(a)
    ELSE IF cmd.op = "enter_edit_mode" THEN enter_edit_mode(a)
    ELSE IF cmd.op = "move_cursor" THEN move_cursor(a, cmd.dx, cmd.dy, cmd.ext)
    ELSE IF cmd.op = "prev_sheet" THEN prev_sheet(a)
    ELSE IF cmd.op = "next_sheet" THEN next_sheet(a)
    ELSE IF cmd.op = "jump_to_start" THEN jump_to_start(a)
    ELSE IF cmd.op = "jump_to_end" THEN jump_to_end(a)
    ELSE IF cmd.op = "jump_to_row_start" THEN jump_to_row_start(a)
    ELSE IF cmd.op = "jump_to_row_end" THEN jump_to_row_end(a)
    ELSE IF cmd.op = "clear_selection" THEN clear_selection(a)
    ELSE IF cmd.op = "set_mark" THEN set_mark_for_selection(a, cmd.mark)
    ELSE IF cmd.op = "enter_sheet_select_mode" THEN enter_sheet_select_mode(a)
    ELSE IF cmd.op = "cancel_select" THEN [a EXCEPT !.mode = "View"]
    ELSE IF cmd.op = "confirm_sheet_selection" THEN confirm_sheet_selection(a)
    ELSE IF cmd.op = "sheet_select_move" THEN sheet_select_move(a, cmd.dy)
    ELSE IF cmd.op = "cancel_edit" THEN [a EXCEPT !.mode = "View"]
    ELSE IF cmd.op = "commit" THEN
        move_cursor([save_cell_value(a) EXCEPT !.mode = "View"], cmd.dx, cmd.dy, FALSE)
    ELSE IF cmd.op = "input" THEN [a EXCEPT !.textarea = lib.text]
    ELSE a

on_key(a, key, lib) ==
    IF ~key.press THEN a
    ELSE run_command([a EXCEPT !.status_message = NoStatus], dispatch(a.mode, key), lib)

(***************************************************************************)
(* draw_grid (src/src/ui.rs:43-73): the viewport size of one draw, from    *)
(* the inner size of the grid block.                                       *)
(***************************************************************************)
ROW_NUM_WIDTH == 6
COLS_SAFETY_LIMIT == 50

\* count_columns that leaves out the separator after each column
RECURSIVE count_columns_no_spacing(_, _, _, _, _)
count_columns_no_spacing(a, start_col, num_cols, used_width, available_width) ==
    LET col_idx == start_col + num_cols
        col_width == get_column_width(a, col_idx)
    IN IF used_width + col_width > available_width THEN num_cols
       ELSE IF num_cols + 1 >= COLS_SAFETY_LIMIT THEN num_cols + 1
       ELSE count_columns_no_spacing(a, start_col, num_cols + 1,
                                     used_width + col_width, available_width)

RECURSIVE count_columns(_, _, _, _, _)
count_columns(a, start_col, num_cols, used_width, available_width) ==
    LET col_idx == start_col + num_cols
        col_width == get_column_width(a, col_idx) + 1
    IN IF used_width + col_width > available_width THEN num_cols
       ELSE IF num_cols + 1 >= COLS_SAFETY_LIMIT THEN num_cols + 1
       ELSE count_columns(a, start_col, num_cols + 1, used_width + col_width,
                          available_width)

draw_grid(a, inner_width, inner_height) ==
    LET available_width == saturating_sub(inner_width, ROW_NUM_WIDTH)
        available_height == saturating_sub(inner_height, 1)
        start_col == a.scroll[2] + 1
        num_cols == Max(count_columns(a, start_col, 0, 0, available_width), 1)
        num_rows == Max(available_height, 1)
    IN [a EXCEPT !.viewport_size = <<num_rows, num_cols>>]

(***************************************************************************)
(* The books a session starts from: the book App::new creates for a path   *)
(* that does not exist, and two books read from a file.                    *)
(***************************************************************************)
ValueCell(v) == [used |-> TRUE, value |-> v, formula |-> "", style |-> DefaultStyle]
FormulaCell(f, cached) ==
    [used |-> TRUE, value |-> cached, formula |-> f, style |-> DefaultStyle]
StyledCell(v, st) == [used |-> TRUE, value |-> v, formula |-> "", style |-> st]

\* new_file() holds one sheet; new_sheet("Sheet1") fails on the duplicate name
NewFile == << BlankSheet >>

\* two sheets; values, a formula with a cached result, a cell another tool
\* filled pure yellow and coloured red
SmallBook ==
    << [BlankSheet EXCEPT
          ![<<1, 1>>] = ValueCell("a"),
          ![<<1, 2>>] = FormulaCell("A1", "a"),
          ![<<2, 1>>] = StyledCell("b",
              [pattern |-> "solid",
               fg |-> <<"F","F","F","F","F","F","0","0">>,
               font |-> <<"f","f","f","f","0","0","0","0">>])],
       [BlankSheet EXCEPT ![<<1, 1>>] = ValueCell("b")] >>

\* one sheet that uses a cell past the editor's limits, and a formula
\* without a cached result
LargeBook ==
    << [BlankSheet EXCEPT
          ![<<1, 1>>] = FormulaCell("B1", ""),
          ![<<SheetRows, SheetCols>>] = ValueCell("a")] >>

Documents == { NewFile, SmallBook, LargeBook }

\* Inner sizes of the grid block the terminal can give a draw.
Areas == { <<17, 2>>, <<28, 3>> }

NoCopy == [rect |-> <<0, 0, 0, 0>>, cells |-> <<>>]

\* what a copy command is about: the selection's rectangle and the raw
\* values of its cells, read from the active sheet
CopySource(a) ==
    LET b == bounds(a.selection)
        sheet == get_sheet(a.spreadsheet, a.current_sheet_index)
    IN [rect |-> b,
        cells |-> [p \in {q \in Pos : q[1] >= b[1] /\ q[1] <= b[3]
                                      /\ q[2] >= b[2] /\ q[2] <= b[4]} |-> sheet[p].value]]

Install(a) ==
    /\ spreadsheet' = a.spreadsheet
    /\ current_sheet_index' = a.current_sheet_index
    /\ cursor' = a.cursor
    /\ selection' = a.selection
    /\ mode' = a.mode
    /\ scroll' = a.scroll
    /\ textarea' = a.textarea
    /\ should_quit' = a.should_quit
    /\ column_widths' = a.column_widths
    /\ clipboard' = a.clipboard
    /\ status_message' = a.status_message
    /\ viewport_size' = a.viewport_size
    /\ cell_marks' = a.cell_marks
    /\ sheet_select_index' = a.sheet_select_index

Init ==
    /\ \E book \in Documents :
         LET a == new(book) IN
         /\ spreadsheet = a.spreadsheet
         /\ current_sheet_index = a.current_sheet_index
         /\ cursor = a.cursor
         /\ selection = a.selection
         /\ mode = a.mode
         /\ scroll = a.scroll
         /\ textarea = a.textarea
         /\ should_quit = a.should_quit
         /\ column_widths = a.column_widths
         /\ clipboard = a.clipboard
         /\ status_message = a.status_message
         /\ viewport_size = a.viewport_size
         /\ cell_marks = a.cell_marks
         /\ sheet_select_index = a.sheet_select_index
    /\ pc = "draw"
    /\ nkeys = 0
    /\ copied = NoCopy

(***************************************************************************)
(* run_app (src/src/main.rs:55-70): draw, then poll for one event, hand a  *)
(* key event to on_key, then test should_quit.                             *)
(***************************************************************************)
Draw ==
    /\ pc = "draw"
    /\ \E app \in { self } : \E area \in Areas :
         \E next_app \in { draw_grid(app, area[1], area[2]) } : Install(next_app)
    /\ pc' = "poll"
    /\ UNCHANGED << nkeys, copied >>

\* poll() times out, or the event read is not a key event
PollTimeout ==
    /\ pc = "poll"
    /\ pc' = "draw"
    /\ UNCHANGED << spreadsheet, current_sheet_index, cursor, selection, mode,
                    scroll, textarea, should_quit, column_widths, clipboard,
                    status_message, viewport_size, cell_marks,
                    sheet_select_index, nkeys, copied >>

\* what the collaborators can answer to a command
LibFor(op) ==
    IF op = "input" THEN [text : Values, write_ok : {TRUE}]
    ELSE IF op = "save" THEN [text : {""}, write_ok : BOOLEAN]
    ELSE [text : {""}, write_ok : {TRUE}]

Modes == {"View", "Edit", "SheetSelect"}

\* on_key(key) called on the App and its result stored back
Handled(key, lib) ==
    \E app \in { self } : \E next_app \in { on_key(app, key, lib) } :
        Install(next_app)

\* KeyEvent without the test of should_quit: the loop always goes on
KeyEvent_without_test(key, lib, budget) ==
    /\ pc = "poll"
    /\ nkeys < budget
    /\ Handled(key, lib)
    /\ pc' = "draw"
    /\ nkeys' = nkeys + 1
    /\ copied' = IF dispatch(mode, key).op = "copy_selection"
                 THEN CopySource(self) ELSE copied

\* one key event read and handled, and the test of should_quit after it;
\* the session reads at most budget events
KeyEvent(key, lib, budget) ==
    /\ pc = "poll"
    /\ nkeys < budget
    /\ Handled(key, lib)
    /\ pc' = IF should_quit' THEN "done" ELSE "draw"
    /\ nkeys' = nkeys + 1
    /\ copied' = IF dispatch(mode, key).op = "copy_selection"
                 THEN CopySource(self) ELSE copied

\* a key event in mode m that on_key dispatches to one of the arms ops
KeyIn(m, ops, budget) ==
    /\ mode = m
    /\ \E key \in Keys : \E cmd \in { dispatch(m, key) } :
         /\ cmd.op \in ops
         /\ \E lib \in LibFor(cmd.op) : KeyEvent(key, lib, budget)

ViewOps ==
    { "quit", "save", "copy_selection", "paste_clipboard", "widen_column",
      "shrink_column", "enter_edit_mode", "move_cursor", "prev_sheet",
      "next_sheet", "jump_to_start", "jump_to_end", "jump_to_row_start",
      "jump_to_row_end", "clear_selection", "set_mark",
      "enter_sheet_select_mode", "nop", "ignored" }
SheetSelectOps ==
    { "cancel_select", "confirm_sheet_selection", "sheet_select_move", "nop",
      "ignored" }
EditOps == { "cancel_edit", "commit", "input", "ignored" }

(***************************************************************************)
(* Spec: a session of at most MaxKeys events, every key in every mode.     *)
(***************************************************************************)
ViewKey == KeyIn("View", ViewOps, MaxKeys)
SheetSelectKey == KeyIn("SheetSelect", SheetSelectOps, MaxKeys)
EditKey == KeyIn("Edit", EditOps, MaxKeys)

Next == Draw \/ PollTimeout \/ ViewKey \/ SheetSelectKey \/ EditKey

Spec == Init /\ [][Next]_vars

(***************************************************************************)
(* SpecNav: longer sessions of movement, jumps and cell edits.             *)
(***************************************************************************)
NavOps ==
    { "move_cursor", "jump_to_start", "jump_to_end", "jump_to_row_start",
      "jump_to_row_end", "clear_selection", "enter_edit_mode" }
NavKey == KeyIn("View", NavOps, MaxNavKeys)
NavEditKey == KeyIn("Edit", EditOps, MaxNavKeys)
NextNav == Draw \/ NavKey \/ NavEditKey
SpecNav == Init /\ [][NextNav]_vars

(***************************************************************************)
(* SpecMark: longer sessions of selecting and marking.                     *)
(***************************************************************************)
MarkOps == { "move_cursor", "set_mark", "next_sheet" }
MarkKey == KeyIn("View", MarkOps, MaxMarkKeys)
NextMark == Draw \/ MarkKey
SpecMark == Init /\ [][NextMark]_vars

(***************************************************************************)
(* SpecClip: longer sessions of selecting, copying, pasting and editing.   *)
(***************************************************************************)
ClipOps ==
    { "move_cursor", "copy_selection", "paste_clipboard", "enter_edit_mode",
      "next_sheet", "jump_to_end" }
ClipKey == KeyIn("View", ClipOps, MaxClipKeys)
ClipEditKey == KeyIn("Edit", EditOps, MaxClipKeys)
NextClip == Draw \/ ClipKey \/ ClipEditKey
SpecClip == Init /\ [][NextClip]_vars

(***************************************************************************)
(* SpecWidth: longer sessions of moving and resizing columns.              *)
(***************************************************************************)
WidthOps == { "move_cursor", "widen_column", "shrink_column" }
WidthKey == KeyIn("View", WidthOps, MaxWidthKeys)
NextWidth == Draw \/ WidthKey
SpecWidth == Init /\ [][NextWidth]_vars

(***************************************************************************)
(* SpecResize: sessions long enough to take a column from the default      *)
(* width to the maximum: widen and shrink keys, and Left / Right to change *)
(* the column.                                                             *)
(***************************************************************************)
ResizeOps == { "widen_column", "shrink_column" }
ResizeKey == KeyIn("View", ResizeOps, MaxResizeKeys)
ResizeMoveKey ==
    /\ mode = "View"
    /\ \E code \in {"Left", "Right"} :
         KeyEvent([code |-> code, ctrl |-> FALSE, shift |-> FALSE, press |-> TRUE],
                  [text |-> "", write_ok |-> TRUE], MaxResizeKeys)
NextResize == Draw \/ ResizeKey \/ ResizeMoveKey
SpecResize == Init /\ [][NextResize]_vars

(***************************************************************************)
(* SpecLayout: short sessions of moving and resizing columns on terminals  *)
(* from one too small for a single cell to one wider than fifty columns.   *)
(***************************************************************************)
Terminals == Areas \cup { <<5, 0>>, <<570, 3>> }
DrawOnTerminal ==
    /\ pc = "draw"
    /\ \E app \in { self } : \E area \in Terminals :
         \E next_app \in { draw_grid(app, area[1], area[2]) } : Install(next_app)
    /\ pc' = "poll"
    /\ UNCHANGED << nkeys, copied >>
LayoutKey == KeyIn("View", WidthOps, MaxLayoutKeys)
NextLayout == DrawOnTerminal \/ LayoutKey
SpecLayout == Init /\ [][NextLayout]_vars

(***************************************************************************)
(* SpecSheets: sessions of switching and picking sheets, on books of one,  *)
(* two and three sheets.                                                   *)
(***************************************************************************)
ThreeSheets ==
    << [BlankSheet EXCEPT ![<<1, 1>>] = ValueCell("a")],
       BlankSheet,
       [BlankSheet EXCEPT ![<<2, 2>>] = ValueCell("b")] >>

SheetBooks == { NewFile, SmallBook, ThreeSheets }

InitSheets ==
    /\ \E book \in SheetBooks :
         LET a == new(book) IN
         /\ spreadsheet = a.spreadsheet
         /\ current_sheet_index = a.current_sheet_index
         /\ cursor = a.cursor
         /\ selection = a.selection
         /\ mode = a.mode
         /\ scroll = a.scroll
         /\ textarea = a.textarea
         /\ should_quit = a.should_quit
         /\ column_widths = a.column_widths
         /\ clipboard = a.clipboard
         /\ status_message = a.status_message
         /\ viewport_size = a.viewport_size
         /\ cell_marks = a.cell_marks
         /\ sheet_select_index = a.sheet_select_index
    /\ pc = "draw"
    /\ nkeys = 0
    /\ copied = NoCopy

SheetOps ==
    { "move_cursor", "prev_sheet", "next_sheet", "enter_sheet_select_mode" }
SheetKey == KeyIn("View", SheetOps, MaxSheetKeys)
SheetPickKey == KeyIn("SheetSelect", SheetSelectOps, MaxSheetKeys)
NextSheets == Draw \/ SheetKey \/ SheetPickKey
SpecSheets == InitSheets /\ [][NextSheets]_vars

(***************************************************************************)
(* Properties.                                                             *)
(***************************************************************************)
InBounds(p) == 1 <= p[1] /\ p[1] <= MAX_ROWS /\ 1 <= p[2] /\ p[2] <= MAX_COLUMNS

\* the cells of the selection's normalized bounds
SelectionRect ==
    { p \in Pos : /\ p[1] >= bounds(selection)[1] /\ p[1] <= bounds(selection)[3]
                  /\ p[2] >= bounds(selection)[2] /\ p[2] <= bounds(selection)[4] }

\* a step of run_app that handled one event
EventStep == pc = "poll" /\ nkeys' = nkeys + 1

\* C1: after any sequence of movement commands the cursor and both
\* endpoints of the selection lie in 1..MAX_ROWS x 1..MAX_COLUMNS.
C1_PositionsInBounds ==
    InBounds(cursor) /\ InBounds(selection.start) /\ InBounds(selection.end)

\* a step that handled a mark command for mark m: set_mark_for_selection
\* alone reports "Marked", with the name of the mark
MarkStep(m) ==
    /\ EventStep
    /\ status_message'.kind = "Marked"
    /\ status_message'.text = mark_name(m)

\* C2: applying Mark::None to a selection leaves, on every cell of the
\* selection, a style in which the document-open decoder finds neither a
\* background mark nor a font mark, and every such cell reports Mark::None.
C2_ClearLeavesNoResidue ==
    [][ MarkStep("None") =>
          \A p \in SelectionRect :
             LET st == spreadsheet'[current_sheet_index + 1][p].style IN
             /\ style_bg_mark(st) = "None"
             /\ style_font_mark(st) = "None"
             /\ <<current_sheet_index, p[1], p[2]>> \notin DOMAIN cell_marks'
      ]_vars

\* C3: writing mark m onto a previously unstyled cell and decoding the
\* cell's style with the document-open decoder yields m, for each of the
\* six marks.
C3_DecodeEncode ==
    [][ \A m \in CellMark :
          MarkStep(m) =>
            \A p \in SelectionRect :
               spreadsheet[current_sheet_index + 1][p].style = DefaultStyle
                 => decode_style(spreadsheet'[current_sheet_index + 1][p].style) = m
      ]_vars

\* C3 witness: in the new book, (1,1) was marked YellowBg and (1,2) cleared,
\* both from the default style.
C3_Witness ==
    /\ Len(spreadsheet) = 1
    /\ \A p \in Pos \ {<<1, 1>>, <<1, 2>>} : ~spreadsheet[1][p].used
    /\ spreadsheet[1][<<1, 1>>].style =
          [pattern |-> "solid", fg |-> ARGB_YELLOW, font |-> ARGB_BASELINE]
    /\ spreadsheet[1][<<1, 2>>].style =
          [pattern |-> "none", fg |-> ARGB_EMPTY, font |-> ARGB_BASELINE]
    /\ cell_marks = [k \in {<<0, 1, 1>>} |-> "YellowBg"]

(***************************************************************************)
(* SpecCodec: App::new between reading the book and decoding its styles.   *)
(* The book holds one cell whose style is any combination of a pattern, a  *)
(* fill colour and a font colour from ColorInputs.                         *)
(***************************************************************************)
LowerChar(c) ==
    IF c = "A" THEN "a" ELSE IF c = "B" THEN "b" ELSE IF c = "C" THEN "c"
    ELSE IF c = "D" THEN "d" ELSE IF c = "E" THEN "e" ELSE IF c = "F" THEN "f"
    ELSE IF c = "G" THEN "g" ELSE IF c = "H" THEN "h" ELSE IF c = "M" THEN "m"
    ELSE IF c = "P" THEN "p" ELSE IF c = "S" THEN "s" ELSE IF c = "Y" THEN "y"
    ELSE c
to_lowercase(s) == [i \in 1..Len(s) |-> LowerChar(s[i])]

YellowValues ==
    { <<"F","F","F","F","F","F","0","0">>, <<"F","F","F","F","0","0">>,
      <<"F","F","F","F","E","F","0","0">> }
BlueValues ==
    { <<"F","F","0","0","0","0","F","F">>, <<"0","0","0","0","F","F">>,
      <<"F","F","0","0","0","0","F","E">>, <<"F","F","0","0","B","F","F","F">>,
      <<"0","0","B","F","F","F">> }
RedValues ==
    { <<"F","F","F","F","0","0","0","0">>, <<"F","F","0","0","0","0">>,
      <<"F","F","F","F","0","0","0","1">> }
GreenValues ==
    { <<"F","F","0","0","8","0","0","0">>, <<"0","0","8","0","0","0">>,
      <<"F","F","0","0","8","0","0","1">>, <<"F","F","0","0","F","F","0","0">>,
      <<"0","0","F","F","0","0">> }
MagentaValues ==
    { <<"F","F","F","F","0","0","F","F">>, <<"F","F","0","0","F","F">>,
      <<"F","F","F","F","0","0","F","E">> }

RecognizedValues ==
    YellowValues \cup BlueValues \cup RedValues \cup GreenValues \cup MagentaValues

ColorInputs ==
    RecognizedValues
      \cup { to_lowercase(c) : c \in RecognizedValues }
      \cup { <<"f","F","f","F","e","F","0","0">>, <<"F","f","0","0","0","0","f","E">>,
             <<"F","F","1","2","3","4","5","6">>, <<"F","F","F","F","F","F","F","F">>,
             ARGB_BASELINE, ARGB_BLUE_FG, ARGB_EMPTY }

StyleInputs ==
    { st \in [pattern : {"absent", "none", "solid"}, fg : ColorInputs, font : ColorInputs] :
        st.pattern = "absent" => st.fg = ARGB_EMPTY }

InitCodec ==
    /\ \E st \in StyleInputs :
         spreadsheet = << [BlankSheet EXCEPT ![<<1, 1>>] = StyledCell("a", st)] >>
    /\ current_sheet_index = 0
    /\ cursor = <<1, 1>>
    /\ selection = single(1, 1)
    /\ mode = "View"
    /\ scroll = <<0, 0>>
    /\ textarea = ""
    /\ should_quit = FALSE
    /\ column_widths = <<>>
    /\ clipboard = <<>>
    /\ status_message = NoStatus
    /\ viewport_size = <<20, 10>>
    /\ cell_marks = <<>>
    /\ sheet_select_index = 0
    /\ pc = "open"
    /\ nkeys = 0
    /\ copied = NoCopy

Open ==
    /\ pc = "open"
    /\ cell_marks' = load_cell_marks_from_spreadsheet(spreadsheet)
    /\ pc' = "draw"
    /\ UNCHANGED << spreadsheet, current_sheet_index, cursor, selection, mode,
                    scroll, textarea, should_quit, column_widths, clipboard,
                    status_message, viewport_size, sheet_select_index, nkeys,
                    copied >>

SpecCodec == InitCodec /\ [][Open]_vars

\* two colour values equal up to letter case
SameColor(c, r) ==
    Len(c) = Len(r) /\ \A i \in 1..Len(c) : LowerChar(c[i]) = LowerChar(r[i])
Recognized(c, values) == \E r \in values : SameColor(c, r)

\* the mark of a (background colour, font colour) pair
TableMark(bg, font) ==
    IF Recognized(bg, YellowValues) THEN "YellowBg"
    ELSE IF Recognized(bg, BlueValues) THEN "BlueBg"
    ELSE IF Recognized(font, RedValues) THEN "RedText"
    ELSE IF Recognized(font, GreenValues) THEN "GreenText"
    ELSE IF Recognized(font, MagentaValues) THEN "MagentaText"
    ELSE "None"

\* C4: the mark decoded for a cell when the document is opened is the
\* table lookup of its background colour, in any letter case, and only
\* when the background is not a recognized yellow or blue the lookup of its
\* font colour; anything else decodes to Mark::None.
C4_DecoderTable ==
    pc # "open" =>
      \A p \in Pos :
         spreadsheet[1][p].used =>
            map_get_or(cell_marks, <<0, p[1], p[2]>>, "None")
               = TableMark(spreadsheet[1][p].style.fg, spreadsheet[1][p].style.font)

\* C4 witness: an opened cell with a lower-case off-palette yellow fill and
\* a pure red font decodes to YellowBg.
C4_Witness ==
    /\ pc = "draw"
    /\ nkeys = 0
    /\ spreadsheet[1][<<1, 1>>].style.fg = <<"f","f","f","f","e","f","0","0">>
    /\ spreadsheet[1][<<1, 1>>].style.font = <<"F","F","F","F","0","0","0","0">>
    /\ cell_marks = [k \in {<<0, 1, 1>>} |-> "YellowBg"]

\* the raw values of the cells of sheet idx (0-based) of a book
ValuesOf(book, idx) == [p \in Pos |-> book[idx + 1][p].value]

\* a step that handled a paste command with a snapshot on the clipboard:
\* paste_clipboard alone reports "Pasted"
PasteStep == EventStep /\ status_message'.kind = "Pasted"

\* C5: pasting where the copied R x C rectangle fits within the bounds
\* makes target cell (r+i, c+j) hold the raw value that source cell
\* (min_row+i, min_col+j) held when it was copied.
C5_CopyPasteRoundTrip ==
    [][ ( /\ PasteStep
          /\ cursor[1] + (copied.rect[3] - copied.rect[1]) <= MAX_ROWS
          /\ cursor[2] + (copied.rect[4] - copied.rect[2]) <= MAX_COLUMNS )
        => \A src \in DOMAIN copied.cells :
              ValuesOf(spreadsheet', current_sheet_index)
                  [<<cursor[1] + (src[1] - copied.rect[1]),
                     cursor[2] + (src[2] - copied.rect[2])>>]
                = copied.cells[src]
      ]_vars

\* C5 witness: a two-row rectangle was pasted one row below its own
\* top-left corner, so that the target overlaps the source, and a source
\* cell no longer holds what was copied from it.
C5_Witness ==
    /\ status_message.kind = "Pasted"
    /\ copied.rect[3] = copied.rect[1] + 1
    /\ cursor = <<copied.rect[1] + 1, copied.rect[2]>>
    /\ cursor[1] + 1 <= MAX_ROWS
    /\ copied.cells[<<copied.rect[1], copied.rect[2]>>] = "a"
    /\ copied.cells[cursor] = "b"
    /\ ValuesOf(spreadsheet, current_sheet_index)[cursor] = "a"
    /\ ValuesOf(spreadsheet, current_sheet_index)[<<cursor[1] + 1, cursor[2]>>] = "b"

\* the cells a paste at the cursor writes: inside the snapshot's extent
\* from the cursor, and inside the document bounds
PasteTarget(p) ==
    /\ p[1] >= cursor[1] /\ p[1] - cursor[1] < Len(clipboard)
    /\ p[2] >= cursor[2] /\ p[2] - cursor[2] < Len(clipboard[1])
    /\ p[1] <= MAX_ROWS /\ p[2] <= MAX_COLUMNS

\* C6: a paste writes snapshot cell (i, j) to (r+i, c+j) exactly where
\* r+i <= MAX_ROWS and c+j <= MAX_COLUMNS, changes the value of no other
\* cell of any sheet, and reports the pasted extent, not an error.
C6_PasteClips ==
    [][ PasteStep =>
          /\ \A p \in Pos :
                ValuesOf(spreadsheet', current_sheet_index)[p] =
                   IF PasteTarget(p)
                   THEN clipboard[p[1] - cursor[1] + 1][p[2] - cursor[2] + 1]
                   ELSE ValuesOf(spreadsheet, current_sheet_index)[p]
          /\ \A i \in 0..(Len(spreadsheet) - 1) :
                i # current_sheet_index
                   => ValuesOf(spreadsheet', i) = ValuesOf(spreadsheet, i)
          /\ status_message' = Status("Pasted", Len(clipboard), Len(clipboard[1]), "")
      ]_vars

\* C6 witness: a two-row snapshot was pasted with the cursor on the last
\* row; the first snapshot row landed there and the sheet's row past the
\* bounds is still unused.
C6_Witness ==
    /\ status_message = Status("Pasted", 2, 1, "")
    /\ cursor[1] = MAX_ROWS
    /\ clipboard[1][1] = "a"
    /\ clipboard[2][1] = "b"
    /\ ValuesOf(spreadsheet, current_sheet_index)[cursor] = "a"
    /\ \A p \in Pos : p[1] > MAX_ROWS => ~spreadsheet[current_sheet_index + 1][p].used

\* C7: a paste with no prior copy changes nothing but the status message,
\* which reports the empty clipboard.
C7_EmptyPasteNoOp ==
    [][ ( /\ EventStep
          /\ copied = NoCopy
          /\ status_message'.kind \in {"Pasted", "Clipboard is empty"} )
        => /\ status_message' = Status("Clipboard is empty", 0, 0, "")
           /\ UNCHANGED << spreadsheet, current_sheet_index, cursor, selection,
                           mode, scroll, textarea, should_quit, column_widths,
                           clipboard, viewport_size, cell_marks,
                           sheet_select_index >>
      ]_vars

\* C7 witness: a paste was answered with the empty-clipboard message.
C7_Witness ==
    /\ status_message.kind = "Clipboard is empty"
    /\ copied = NoCopy
    /\ clipboard = <<>>

\* the formula of the cell under the cursor on the active sheet
FormulaAtCursor == spreadsheet[current_sheet_index + 1][cursor].formula

\* the mode after a key, by the transitions of the mode state machine
ModeAfter(key) ==
    IF ~key.press THEN mode
    ELSE IF mode = "View" /\ key.code = "F2" /\ FormulaAtCursor = "" THEN "Edit"
    ELSE IF mode = "View" /\ key.code = "F4" THEN "SheetSelect"
    ELSE IF mode = "Edit" /\ key.code \in {"Esc", "Enter", "Tab"} THEN "View"
    ELSE IF mode = "SheetSelect" /\ key.code \in {"Esc", "Enter"} THEN "View"
    ELSE mode

\* C8: the mode changes only when a key event is handled, and then only by
\* View -> Edit on F2 over a non-formula cell, Edit -> View on Esc, Enter
\* or Tab, View -> SheetSelect on F4, SheetSelect -> View on Esc or Enter;
\* every other key leaves the mode unchanged.  In particular Esc leads from
\* Edit and from SheetSelect back to View in every reachable state.
C8_ModeTransitions ==
    /\ [] ( pc = "poll" =>
              \A key \in Keys : \A lib \in LibFor(dispatch(mode, key).op) :
                 on_key(self, key, lib).mode = ModeAfter(key) )
    /\ [][ mode' # mode => EventStep ]_vars

\* C8 witness: in the new book an edit of (1,1) was started, typed and
\* committed, and the session is back in View.
C8_Witness ==
    /\ mode = "View"
    /\ Len(spreadsheet) = 1
    /\ spreadsheet[1][<<1, 1>>].value = "a"
    /\ \A p \in Pos \ {<<1, 1>>} : ~spreadsheet[1][p].used
    /\ clipboard = <<>>

\* the answers of the collaborators when the command asks for none
NoLib == [text |-> "", write_ok |-> TRUE]

\* a step that handled a press of the key with this code
PressStep(code) ==
    /\ EventStep
    /\ \E key \in Keys : key.code = code /\ key.press /\ Handled(key, NoLib)

\* C9: a start-edit command in View on a formula cell leaves the mode in
\* View, the edit buffer and the book (value and formula) unchanged, and
\* shows the formula text as the status message.
C9_FormulaEditRejected ==
    [][ ( /\ mode = "View"
          /\ FormulaAtCursor # ""
          /\ PressStep("F2") )
        => /\ mode' = "View"
           /\ textarea' = textarea
           /\ spreadsheet' = spreadsheet
           /\ status_message' = Status("Formula (read-only)", 0, 0, FormulaAtCursor)
      ]_vars

\* C9 witness: the formula of a cell without a cached result is shown.
C9_Witness ==
    /\ status_message = Status("Formula (read-only)", 0, 0, "B1")
    /\ mode = "View"
    /\ spreadsheet[current_sheet_index + 1][cursor].formula = "B1"
    /\ spreadsheet[current_sheet_index + 1][cursor].value = ""

\* C10 as stated: a commit from a cursor position within the bounds writes
\* the buffer to the cell under the cursor, returns to View and advances
\* the cursor by exactly one row (Enter) or one column (Tab), the selection
\* collapsed to the new cursor.
C10_CommitAdvancesByOne ==
    [][ \A code \in {"Enter", "Tab"} :
          ( mode = "Edit" /\ InBounds(cursor) /\ PressStep(code) )
          => /\ ValuesOf(spreadsheet', current_sheet_index)[cursor] = textarea
             /\ mode' = "View"
             /\ cursor' = IF code = "Enter" THEN <<cursor[1] + 1, cursor[2]>>
                          ELSE <<cursor[1], cursor[2] + 1>>
             /\ selection' = single(cursor'[1], cursor'[2])
      ]_vars

\* C10 amended: a commit writes the buffer to the cell under the cursor,
\* returns to View and moves the cursor to
\* (min(row + 1, MAX_ROWS), min(col, MAX_COLUMNS)) on Enter and to
\* (min(row, MAX_ROWS), min(col + 1, MAX_COLUMNS)) on Tab, the selection
\* collapsed to the new cursor.
C10_CommitAdvancesClamped ==
    [][ \A code \in {"Enter", "Tab"} :
          ( mode = "Edit" /\ PressStep(code) )
          => /\ ValuesOf(spreadsheet', current_sheet_index)[cursor] = textarea
             /\ mode' = "View"
             /\ cursor' = IF code = "Enter"
                          THEN <<Min(cursor[1] + 1, MAX_ROWS), Min(cursor[2], MAX_COLUMNS)>>
                          ELSE <<Min(cursor[1], MAX_ROWS), Min(cursor[2] + 1, MAX_COLUMNS)>>
             /\ selection' = single(cursor'[1], cursor'[2])
      ]_vars

\* C10 witness: in the new book "b" was committed with Tab on the last
\* column, and the cursor is still on that cell.
C10_Witness ==
    /\ mode = "View"
    /\ nkeys = 4
    /\ Len(spreadsheet) = 1
    /\ cursor = <<1, MAX_COLUMNS>>
    /\ spreadsheet[1][cursor].value = "b"
    /\ \A p \in Pos \ {cursor} : ~spreadsheet[1][p].used

\* the (dx, dy) that the arms of on_key hand to move_cursor
MoveDeltas == { <<0, -1>>, <<0, 1>>, <<-1, 0>>, <<1, 0>> }

\* C11: from every state of a session in Mode::View, an extending move,
\* a draw and then a non-extending move leave a selection of one cell
\* (start = end), and that cell is the cursor after the second move.
C11_ExtendThenCollapse ==
    (pc = "poll" /\ mode = "View") =>
        \A d1 \in MoveDeltas : \A area \in Areas : \A d2 \in MoveDeltas :
            LET extended == move_cursor(self, d1[1], d1[2], TRUE)
                drawn == draw_grid(extended, area[1], area[2])
                collapsed == move_cursor(drawn, d2[1], d2[2], FALSE)
            IN /\ collapsed.selection.start = collapsed.selection.end
               /\ collapsed.selection.end = collapsed.cursor

\* C11 witness: a selection of more than one cell, extended to the
\* cursor, is in place when the next key is read.
C11_Witness ==
    /\ pc = "poll"
    /\ mode = "View"
    /\ selection.start # selection.end
    /\ selection.end = cursor
    /\ selection.start = <<1, 1>>
    /\ cursor = <<MAX_ROWS, MAX_COLUMNS>>

\* the cursor of App a is inside the window of a's scroll offset and
\* viewport size
InWindow(a) ==
    /\ a.scroll[1] < a.cursor[1] /\ a.cursor[1] <= a.scroll[1] + a.viewport_size[1]
    /\ a.scroll[2] < a.cursor[2] /\ a.cursor[2] <= a.scroll[2] + a.viewport_size[2]

\* C12: a move from any state of a session leaves the cursor inside the
\* window of the scroll offset and the viewport size the move ran with;
\* on each axis, a cursor at or before the first visible index makes the
\* scroll back up to cursor - 1 (the cursor is the first visible one), and
\* a cursor past the last visible index makes the scroll advance to
\* cursor - viewport (the cursor is the last visible one).
C12_CursorInWindowAfterMove ==
    pc = "poll" =>
        \A d \in MoveDeltas : \A extend \in BOOLEAN :
            LET moved == move_cursor(self, d[1], d[2], extend) IN
            /\ moved.viewport_size = viewport_size
            /\ InWindow(moved)
            /\ \A i \in {1, 2} :
                 /\ moved.cursor[i] <= scroll[i]
                      => moved.scroll[i] = moved.cursor[i] - 1
                 /\ moved.cursor[i] > scroll[i] + viewport_size[i]
                      => moved.scroll[i] = moved.cursor[i] - viewport_size[i]

\* C12 witness: with a window of one row and one column the scroll has
\* advanced to the cursor on both axes and a row remains below: the next
\* move down or right overshoots the window and the next move up or left
\* lands before it.
C12_Witness ==
    /\ pc = "poll"
    /\ mode = "View"
    /\ viewport_size[1] = 1
    /\ scroll[1] = 1
    /\ cursor[1] = 2
    /\ cursor[1] < MAX_ROWS
    /\ scroll[2] = 1
    /\ cursor[2] = 2

\* a step that handled a press of the shrink key
ShrinkStep ==
    /\ EventStep
    /\ mode = "View"
    /\ Handled([code |-> "r", ctrl |-> FALSE, shift |-> FALSE, press |-> TRUE], NoLib)

\* C13: a shrink command takes the width of the cursor's column from w to
\* max(w - 2, 3): 10 -> 8 -> 6 -> 4 with the entry kept in the width map,
\* and from 4 the entry is removed while the column renders at the
\* minimum width 3.
C13_ShrinkSequence ==
    [][ ShrinkStep =>
          LET col == cursor[2]
              w == get_column_width(self, col)
              expected == Max(w - COLUMN_WIDTH_STEP, MIN_COLUMN_WIDTH)
          IN /\ map_get_or(column_widths', col, DEFAULT_COLUMN_WIDTH) = expected
             /\ expected > MIN_COLUMN_WIDTH <=> col \in DOMAIN column_widths'
      ]_vars

\* C14: a mark command with mark m sets m (get_cell_mark) on every cell
\* between the selection's corners on the active sheet, whichever corner
\* is the anchor, reports (max_row - min_row + 1) * (max_col - min_col + 1)
\* cells, and leaves the mark of every other cell of the active sheet and
\* of every cell of the other sheets as it was.
C14_MarkCoversSelection ==
    [][ \A m \in CellMark :
          MarkStep(m) =>
            LET min_row == Min(selection.start[1], selection.end[1])
                max_row == Max(selection.start[1], selection.end[1])
                min_col == Min(selection.start[2], selection.end[2])
                max_col == Max(selection.start[2], selection.end[2])
                inside(k) == /\ k[1] = current_sheet_index
                             /\ min_row <= k[2] /\ k[2] <= max_row
                             /\ min_col <= k[3] /\ k[3] <= max_col
            IN /\ current_sheet_index' = current_sheet_index
               /\ status_message'.n = (max_row - min_row + 1) * (max_col - min_col + 1)
               /\ \A k \in MarkKeysOf(spreadsheet) :
                    IF inside(k)
                    THEN get_cell_mark(self', k[2], k[3]) = m
                    ELSE map_get_or(cell_marks', k, "None")
                           = map_get_or(cell_marks, k, "None")
      ]_vars

\* C14 witness: in the two-sheet book the selection was anchored at (1,2)
\* and extended left to (1,1), and RedText was applied: both cells carry
\* it and the yellow cell (2,1) read from the file keeps its mark.
C14_Witness ==
    /\ status_message = Status("Marked", 2, 0, "red text")
    /\ selection = [start |-> <<1, 2>>, end |-> <<1, 1>>]
    /\ current_sheet_index = 0
    /\ Len(spreadsheet) = 2
    /\ cell_marks = ( <<0, 1, 1>> :> "RedText" @@ <<0, 1, 2>> :> "RedText"
                       @@ <<0, 2, 1>> :> "YellowBg" )

\* a step that handled a press of the save key, the writer answering ok
SaveStep(ok) ==
    /\ EventStep
    /\ mode = "View"
    /\ \E shift \in BOOLEAN :
         Handled([code |-> "s", ctrl |-> TRUE, shift |-> shift, press |-> TRUE],
                 [text |-> "", write_ok |-> ok])

\* C15: a save command, whether the writer succeeds or fails, changes no
\* field of the session but the status message, which reports the save or
\* the error; the quit flag stays unset and the loop goes on to the next
\* draw.
C15_SaveChangesOnlyStatus ==
    [][ \A ok \in BOOLEAN :
          SaveStep(ok) =>
            /\ UNCHANGED << spreadsheet, current_sheet_index, cursor, selection,
                            mode, scroll, textarea, should_quit, column_widths,
                            clipboard, viewport_size, cell_marks,
                            sheet_select_index >>
            /\ status_message' = IF ok THEN Status("Saved", 0, 0, "")
                                  ELSE Status("Error", 0, 0, "Failed to save file")
            /\ should_quit' = FALSE
            /\ pc' = "draw"
      ]_vars

\* C15 witness: a save failed after the cursor had moved and a cell had
\* been copied; the session is about to draw again.
C15_Witness ==
    /\ status_message = Status("Error", 0, 0, "Failed to save file")
    /\ pc = "draw"
    /\ ~should_quit
    /\ cursor = <<2, 1>>
    /\ clipboard = << <<"b">> >>

\* a step that handled a press of the jump-to-document-end key
JumpEndStep ==
    /\ EventStep
    /\ mode = "View"
    /\ \E shift \in BOOLEAN :
         Handled([code |-> "End", ctrl |-> TRUE, shift |-> shift, press |-> TRUE], NoLib)

\* the used cells of the active sheet
UsedCells == { p \in Pos : spreadsheet[current_sheet_index + 1][p].used }

\* C16: the session starts with the cursor at (1,1); a jump to the
\* document's end puts the cursor on (max(highest used row, 1),
\* max(highest used column, 1)) of the active sheet and collapses the
\* selection to it, so on a sheet without used cells it leaves the cursor
\* at (1,1).
C16_JumpToEnd ==
    /\ [](nkeys = 0 => cursor = <<1, 1>>)
    /\ [][ JumpEndStep =>
             LET row == IF UsedCells = {} THEN 1
                        ELSE CHOOSE r \in 1..SheetRows :
                               /\ \E p \in UsedCells : p[1] = r
                               /\ \A p \in UsedCells : p[1] <= r
                 col == IF UsedCells = {} THEN 1
                        ELSE CHOOSE c \in 1..SheetCols :
                               /\ \E p \in UsedCells : p[2] = c
                               /\ \A p \in UsedCells : p[2] <= c
             IN /\ cursor' = <<row, col>>
                /\ selection' = single(row, col)
                /\ (UsedCells = {} /\ cursor = <<1, 1>>) => cursor' = <<1, 1>>
       ]_vars

\* C16 witness: the cursor is on the highest used row and column of a
\* sheet that uses a cell past MAX_ROWS and MAX_COLUMNS, where no other
\* command takes it, with the selection collapsed to it.
C16_Witness ==
    /\ cursor = <<SheetRows, SheetCols>>
    /\ selection = single(SheetRows, SheetCols)
    /\ spreadsheet[current_sheet_index + 1][cursor].used
    /\ mode = "View"

\* sheet_select_move(delta) called k times
RECURSIVE SheetSelectMoves(_, _, _)
SheetSelectMoves(a, delta, k) ==
    IF k = 0 THEN a ELSE SheetSelectMoves(sheet_select_move(a, delta), delta, k - 1)

\* C17: in Mode::SheetSelect over n sheets the highlighted index i is in
\* 0..n-1; a down key makes it (i + 1) mod n and an up key (i - 1) mod n;
\* n downs in a row, and n ups in a row, bring it back to i.
C17_SheetSelectWraps ==
    /\ [](mode = "SheetSelect" =>
            LET n == Len(spreadsheet) IN
            /\ n >= 1
            /\ sheet_select_index \in 0..(n - 1)
            /\ SheetSelectMoves(self, 1, n).sheet_select_index = sheet_select_index
            /\ SheetSelectMoves(self, -1, n).sheet_select_index = sheet_select_index)
    /\ [][ mode = "SheetSelect" =>
             LET n == Len(spreadsheet)
                 i == sheet_select_index
             IN /\ \A code \in {"s", "Down"} :
                     PressStep(code) =>
                       sheet_select_index' = IF i + 1 = n THEN 0 ELSE i + 1
                /\ \A code \in {"w", "Up"} :
                     PressStep(code) =>
                       sheet_select_index' = IF i = 0 THEN n - 1 ELSE i - 1
       ]_vars

\* C17 witness: on the book of three sheets the picker was opened on
\* sheet 0 and one up key wrapped the highlight to the last sheet.
C17_Witness ==
    /\ mode = "SheetSelect"
    /\ Len(spreadsheet) = 3
    /\ current_sheet_index = 0
    /\ sheet_select_index = 2
    /\ nkeys = 2

\* C18: the pick-sheet key in View enters SheetSelect with the highlight
\* on the active sheet; Esc in SheetSelect returns to View with the active
\* sheet as it was, whatever is highlighted; Enter returns to View with
\* the highlighted sheet active; neither changes cursor, selection or
\* scroll.
C18_PickSheet ==
    [][ /\ (mode = "View" /\ PressStep("F4")) =>
             /\ mode' = "SheetSelect"
             /\ sheet_select_index' = current_sheet_index
             /\ current_sheet_index' = current_sheet_index
        /\ (mode = "SheetSelect" /\ PressStep("Esc")) =>
             /\ mode' = "View"
             /\ current_sheet_index' = current_sheet_index
             /\ UNCHANGED << cursor, selection, scroll >>
        /\ (mode = "SheetSelect" /\ PressStep("Enter")) =>
             /\ mode' = "View"
             /\ current_sheet_index' = sheet_select_index
             /\ UNCHANGED << cursor, selection, scroll >>
      ]_vars

\* C18 witness: on the book of three sheets the cursor went to (1,2) with
\* a window of one column, so the scroll advanced; then the last sheet was
\* picked and confirmed.
C18_Witness ==
    /\ pc = "draw"
    /\ mode = "View"
    /\ Len(spreadsheet) = 3
    /\ current_sheet_index = 2
    /\ sheet_select_index = 2
    /\ cursor = <<1, 2>>
    /\ scroll = <<0, 1>>
    /\ nkeys = 4

\* C19: a paste leaves the mark map, the cursor, the selection, the
\* scroll offset, the mode and the clipboard as they were, changes the
\* style (fill and font colour) of no cell, and changes no cell outside
\* the target rectangle on the active sheet.
C19_PasteFrame ==
    [][ PasteStep =>
          /\ UNCHANGED << cell_marks, cursor, selection, scroll, mode, clipboard >>
          /\ \A i \in 1..Len(spreadsheet) : \A p \in Pos :
                /\ spreadsheet'[i][p].style = spreadsheet[i][p].style
                /\ ~(i = current_sheet_index + 1 /\ PasteTarget(p))
                     => spreadsheet'[i][p] = spreadsheet[i][p]
      ]_vars

\* C19 witness: "a" was copied from (1,1) and pasted onto the styled
\* cell (2,1): the cell holds "a", keeps its yellow fill and red font,
\* and keeps its mark.
C19_Witness ==
    /\ status_message = Status("Pasted", 1, 1, "")
    /\ cursor = <<2, 1>>
    /\ current_sheet_index = 0
    /\ spreadsheet[1][<<2, 1>>].value = "a"
    /\ spreadsheet[1][<<2, 1>>].style.pattern = "solid"
    /\ spreadsheet[1][<<2, 1>>].style.fg = <<"F","F","F","F","F","F","0","0">>
    /\ spreadsheet[1][<<2, 1>>].style.font = <<"f","f","f","f","0","0","0","0">>
    /\ <<0, 2, 1>> \in DOMAIN cell_marks
    /\ cell_marks[<<0, 2, 1>>] = "YellowBg"

(***************************************************************************)
(* Date formats (src/src/app.rs:505-587).  A format code is a sequence of  *)
(* one-character strings, as a colour value is.                            *)
(***************************************************************************)
\* NumberingFormat::FORMAT_GENERAL and FORMAT_TEXT of umya_spreadsheet
FORMAT_GENERAL == <<"G","e","n","e","r","a","l">>
FORMAT_TEXT == <<"@">>

\* str::contains with a char and with a string pattern
contains_char(s, c) == \E i \in 1..Len(s) : s[i] = c
contains_str(s, t) ==
    \E i \in 1..(Len(s) - Len(t) + 1) : SubSeq(s, i, i + Len(t) - 1) = t

is_date_format(format_code) ==
    IF format_code = FORMAT_GENERAL \/ format_code = FORMAT_TEXT
    THEN FALSE
    ELSE LET lower == to_lowercase(format_code) IN
         \/ contains_char(lower, "y") \/ contains_char(lower, "m")
         \/ contains_char(lower, "d") \/ contains_char(lower, "h")
         \/ contains_str(lower, <<"a","m">>) \/ contains_str(lower, <<"p","m">>)

\* normalize_date_format counting the letter m as a date token beside a
\* time token
normalize_date_format_month_counts(format_code) ==
    LET lower == to_lowercase(format_code) IN
    IF \/ contains_char(lower, "h")
       \/ contains_str(lower, <<"a","m">>) \/ contains_str(lower, <<"p","m">>)
    THEN IF \/ contains_char(lower, "y") \/ contains_char(lower, "d")
            \/ contains_char(lower, "m")
         THEN "yyyy-mm-dd hh:mm:ss"
         ELSE "hh:mm:ss"
    ELSE "yyyy-mm-dd"

normalize_date_format(format_code) ==
    LET lower == to_lowercase(format_code) IN
    IF \/ contains_char(lower, "h")
       \/ contains_str(lower, <<"a","m">>) \/ contains_str(lower, <<"p","m">>)
    THEN IF contains_char(lower, "y") \/ contains_char(lower, "d")
         THEN "yyyy-mm-dd hh:mm:ss"
         ELSE "hh:mm:ss"
    ELSE "yyyy-mm-dd"

\* cell.get_style().get_number_format(): the format code of a style that
\* carries one ("has" is FALSE for None)
get_number_format(style) ==
    IF "format" \in DOMAIN style
    THEN [has |-> TRUE, code |-> style.format]
    ELSE [has |-> FALSE, code |-> <<>>]

\* the format get_cell_display hands to to_formatted_string for a cell
\* without a formula ("raw": the raw value is shown as it is)
display_format(cell) ==
    IF ~cell.used THEN "raw"
    ELSE LET num_fmt == get_number_format(cell.style) IN
         IF ~num_fmt.has THEN "raw"
         ELSE IF is_date_format(num_fmt.code) THEN normalize_date_format(num_fmt.code)
         ELSE IF num_fmt.code # FORMAT_GENERAL THEN "format_code"
         ELSE "raw"

(***************************************************************************)
(* SpecFormat: a book is opened whose cell (1,1) carries a number format   *)
(* code of at most MaxCodeLen characters, or one of the two sentinels, and *)
(* the grid is drawn.                                                      *)
(***************************************************************************)
FormatChars == { "y", "m", "d", "h", "a", "p", ":", "M" }

RECURSIVE CodesOfLen(_)
CodesOfLen(n) ==
    IF n = 0 THEN { <<>> }
    ELSE { Append(c, ch) : c \in CodesOfLen(n - 1), ch \in FormatChars }

FormatCodes ==
    UNION { CodesOfLen(n) : n \in 0..MaxCodeLen } \cup { FORMAT_GENERAL, FORMAT_TEXT }

InitFormat ==
    /\ \E code \in FormatCodes :
         spreadsheet =
            << [BlankSheet EXCEPT ![<<1, 1>>] =
                  [used |-> TRUE, value |-> "a", formula |-> "",
                   style |-> [pattern |-> "absent", fg |-> ARGB_EMPTY,
                              font |-> ARGB_EMPTY, format |-> code]]] >>
    /\ current_sheet_index = 0
    /\ cursor = <<1, 1>>
    /\ selection = single(1, 1)
    /\ mode = "View"
    /\ scroll = <<0, 0>>
    /\ textarea = ""
    /\ should_quit = FALSE
    /\ column_widths = <<>>
    /\ clipboard = <<>>
    /\ status_message = NoStatus
    /\ viewport_size = <<20, 10>>
    /\ cell_marks = <<>>
    /\ sheet_select_index = 0
    /\ pc = "open"
    /\ nkeys = 0
    /\ copied = NoCopy

NextFormat == Open \/ Draw
SpecFormat == InitFormat /\ [][NextFormat]_vars

\* the format code of cell (1,1) of the first sheet, and its lower case
CodeOfA1 == get_number_format(spreadsheet[1][<<1, 1>>].style).code
LowerOfA1 == [i \in 1..Len(CodeOfA1) |-> LowerChar(CodeOfA1[i])]

CanonicalPatterns == { "yyyy-mm-dd hh:mm:ss", "hh:mm:ss", "yyyy-mm-dd" }

\* tokens of the code of A1: a year or day letter; an hour letter or a
\* meridiem marker; a month name (three m in a row outside a meridiem
\* marker, which no format code reads as minutes); an m that is not the m
\* of a meridiem marker
HasYearOrDay == \E i \in 1..Len(LowerOfA1) : LowerOfA1[i] \in {"y", "d"}
HasTimeToken ==
    \/ \E i \in 1..Len(LowerOfA1) : LowerOfA1[i] = "h"
    \/ \E i \in 1..(Len(LowerOfA1) - 1) :
          LowerOfA1[i] \in {"a", "p"} /\ LowerOfA1[i + 1] = "m"
HasMonthName ==
    \E i \in 1..(Len(LowerOfA1) - 2) :
        /\ LowerOfA1[i] = "m" /\ LowerOfA1[i + 1] = "m" /\ LowerOfA1[i + 2] = "m"
        /\ (i = 1 \/ LowerOfA1[i - 1] \notin {"a", "p"})
HasOtherM ==
    \E i \in 1..Len(LowerOfA1) :
        LowerOfA1[i] = "m" /\ (i = 1 \/ LowerOfA1[i - 1] \notin {"a", "p"})

\* C20 as stated: a code classified as date/time is normalized to one of
\* the three canonical patterns: date+time when it holds a date token
\* (year, month or day) and a time token (hour or meridiem marker),
\* time-only when it holds only time tokens, date-only otherwise; the
\* General and Text codes are not classified as date/time.  The month
\* token is read narrowly: only a month name counts as one for date+time,
\* and any m outside a meridiem marker keeps a code from being time-only.
C20_DateFormatNormalized ==
    /\ CodeOfA1 \in {FORMAT_GENERAL, FORMAT_TEXT} => ~is_date_format(CodeOfA1)
    /\ is_date_format(CodeOfA1) =>
          /\ normalize_date_format(CodeOfA1) \in CanonicalPatterns
          /\ (HasTimeToken /\ (HasYearOrDay \/ HasMonthName))
                => normalize_date_format(CodeOfA1) = "yyyy-mm-dd hh:mm:ss"
          /\ (HasTimeToken /\ ~HasYearOrDay /\ ~HasOtherM)
                => normalize_date_format(CodeOfA1) = "hh:mm:ss"
          /\ ~HasTimeToken => normalize_date_format(CodeOfA1) = "yyyy-mm-dd"

\* C20 amended: a code classified as date/time is normalized to one of
\* the three canonical patterns: date+time when it holds a time token
\* (hour or meridiem marker) and a year or day token, time-only when it
\* holds a time token and neither a year nor a day token, whatever m it
\* holds, date-only otherwise; the General and Text codes are not
\* classified as date/time.
C20_DateFormatYearOrDay ==
    /\ CodeOfA1 \in {FORMAT_GENERAL, FORMAT_TEXT} => ~is_date_format(CodeOfA1)
    /\ is_date_format(CodeOfA1) =>
          /\ display_format(spreadsheet[1][<<1, 1>>]) \in CanonicalPatterns
          /\ display_format(spreadsheet[1][<<1, 1>>]) =
                IF HasTimeToken /\ HasYearOrDay THEN "yyyy-mm-dd hh:mm:ss"
                ELSE IF HasTimeToken THEN "hh:mm:ss"
                ELSE "yyyy-mm-dd"

\* C20 witness: the grid was drawn for a cell whose code is a month name
\* and an hour; the cell is shown with the time-only pattern.
C20_Witness ==
    /\ pc = "poll"
    /\ CodeOfA1 = <<"M", "M", "M", "h">>
    /\ is_date_format(CodeOfA1)
    /\ display_format(spreadsheet[1][<<1, 1>>]) = "hh:mm:ss"

\* C21: from every state of a session, a move with extend = TRUE leaves
\* the selection's start as it was and sets its end to the new cursor; a
\* move with extend = FALSE sets both start and end to the new cursor.
\* The new cursor is the old one shifted by (dy, dx) and limited to
\* 1..MAX_ROWS x 1..MAX_COLUMNS.
C21_ExtendKeepsAnchor ==
    pc = "poll" =>
        \A d \in MoveDeltas :
            LET new_cursor ==
                    << Max(1, Min(MAX_ROWS, cursor[1] + d[2])),
                       Max(1, Min(MAX_COLUMNS, cursor[2] + d[1])) >>
                extended == move_cursor(self, d[1], d[2], TRUE)
                collapsed == move_cursor(self, d[1], d[2], FALSE)
            IN /\ extended.cursor = new_cursor
               /\ extended.selection.start = selection.start
               /\ extended.selection.end = new_cursor
               /\ collapsed.cursor = new_cursor
               /\ collapsed.selection.start = new_cursor
               /\ collapsed.selection.end = new_cursor

\* C21 witness: the selection is anchored at (2,2) and was extended up
\* and left to the cursor at (1,1).
C21_Witness ==
    /\ pc = "poll"
    /\ mode = "View"
    /\ selection = [start |-> <<2, 2>>, end |-> <<1, 1>>]
    /\ cursor = <<1, 1>>

\* a step that handled a copy command: copy_selection alone reports
\* "Copied"
CopyStep == EventStep /\ status_message'.kind = "Copied"

\* C22: the clipboard changes only in a step that handles a copy command;
\* after a copy of a selection of R rows and C columns it holds exactly R
\* rows of C values each; every other step (every other command, a draw,
\* a poll without a key) leaves it as it was.
C22_ClipboardOnlyByCopy ==
    [][ /\ clipboard' # clipboard => CopyStep
        /\ CopyStep =>
             LET rows == Max(selection.start[1], selection.end[1])
                           - Min(selection.start[1], selection.end[1]) + 1
                 cols == Max(selection.start[2], selection.end[2])
                           - Min(selection.start[2], selection.end[2]) + 1
             IN /\ Len(clipboard') = rows
                /\ \A i \in 1..rows : Len(clipboard'[i]) = cols
      ]_vars

\* C22 witness: "a" and "b" were copied from (1,1)..(2,1) and pasted at
\* (2,1), which overwrote the source cell (2,1) with "a"; the clipboard
\* still holds "a" and "b".
C22_Witness ==
    /\ status_message = Status("Pasted", 2, 1, "")
    /\ copied.rect = <<1, 1, 2, 1>>
    /\ cursor = <<2, 1>>
    /\ spreadsheet[current_sheet_index + 1][<<2, 1>>].value = "a"
    /\ clipboard = << <<"a">>, <<"b">> >>

\* C23: after any sequence of widen and shrink commands the display width
\* of every column lies in [3, 50], every entry of the column-width map is
\* greater than the minimum 3 and at most 50, and a shrink whose result
\* max(w - 2, 3) is at or below the minimum leaves the column without an
\* entry.
C23_WidthsInRange ==
    /\ [](/\ \A col \in 1..SheetCols :
              /\ get_column_width(self, col) >= MIN_COLUMN_WIDTH
              /\ get_column_width(self, col) <= MAX_COLUMN_WIDTH
          /\ \A col \in DOMAIN column_widths :
              /\ column_widths[col] > MIN_COLUMN_WIDTH
              /\ column_widths[col] <= MAX_COLUMN_WIDTH)
    /\ [][ ShrinkStep
             /\ Max(saturating_sub(get_column_width(self, cursor[2]), COLUMN_WIDTH_STEP),
                    MIN_COLUMN_WIDTH) <= MIN_COLUMN_WIDTH
           => cursor[2] \notin DOMAIN column_widths' ]_vars

\* C23 witness: twenty widen commands took column 1 from the default width
\* to the maximum, and the twenty-first was absorbed by the cap.
C23_Witness ==
    /\ nkeys >= 21
    /\ cursor[2] = 1
    /\ 1 \in DOMAIN column_widths
    /\ column_widths[1] = MAX_COLUMN_WIDTH
    /\ status_message = Status("Column width at maximum", MAX_COLUMN_WIDTH, 0, "")

\* the other end of C23: four shrink commands took a column from the default
\* width to the minimum, and it has no entry
C23_WitnessShrunk ==
    /\ nkeys = 4
    /\ column_widths = <<>>
    /\ status_message = Status("Column width at minimum", MIN_COLUMN_WIDTH, 0, "")

\* C24: Esc in Edit returns to View and leaves the book, the cursor, the
\* selection and the scroll offset as they were; every step that stays in
\* Edit (typing into the buffer, a draw) leaves them as they were as well,
\* so the cell holds at the cancel the raw value it had when the edit
\* started, whatever the buffer holds.
C24_CancelDiscardsBuffer ==
    [][ mode = "Edit" /\ (PressStep("Esc") \/ mode' = "Edit")
        => /\ PressStep("Esc") => mode' = "View"
           /\ spreadsheet' = spreadsheet
           /\ cursor' = cursor
           /\ selection' = selection
           /\ scroll' = scroll
      ]_vars

\* C24 witness: an edit of (1,1), which holds "a", was started, "b" was
\* typed and the edit was cancelled; the buffer still holds "b" and the
\* cell "a".
C24_Witness ==
    /\ nkeys = 3
    /\ mode = "View"
    /\ cursor = <<1, 1>>
    /\ textarea = "b"
    /\ spreadsheet[current_sheet_index + 1][<<1, 1>>].value = "a"
    /\ spreadsheet[current_sheet_index + 1][<<1, 1>>].formula = ""

\* the sum of (width + 1) over the n columns starting at column start_col
RECURSIVE WidthOfColumns(_, _, _)
WidthOfColumns(a, start_col, n) ==
    IF n = 0 THEN 0
    ELSE WidthOfColumns(a, start_col, n - 1) + get_column_width(a, start_col + n - 1) + 1

\* the largest n whose columns, starting at the first visible column, fit
\* into the available width
LargestFit(a, available_width) ==
    CHOOSE n \in 0..available_width :
        /\ WidthOfColumns(a, a.scroll[2] + 1, n) <= available_width
        /\ WidthOfColumns(a, a.scroll[2] + 1, n + 1) > available_width

\* C25 as stated: every draw sets the viewport's column count to the
\* largest n such that the sum of (width + 1) over the n columns starting
\* at the first visible column does not exceed the available width, and
\* its row count to the available height, each raised to at least 1.
C25_ViewportIsLargestFit ==
    pc = "draw" =>
        \A area \in Terminals :
            LET available_width == saturating_sub(area[1], ROW_NUM_WIDTH)
                available_height == saturating_sub(area[2], 1)
                drawn == draw_grid(self, area[1], area[2])
            IN /\ drawn.viewport_size[2] = Max(LargestFit(self, available_width), 1)
               /\ drawn.viewport_size[1] = Max(available_height, 1)

\* C25 amended: every draw sets the viewport's column count to the largest
\* n of at most 50 such that the sum of (width + 1) over the n columns
\* starting at the first visible column does not exceed the available
\* width, and its row count to the available height, each raised to at
\* least 1; hence after any draw viewport_size >= (1, 1).
C25_ViewportIsLargestFitUpTo50 ==
    /\ pc = "draw" =>
          \A area \in Terminals :
            LET available_width == saturating_sub(area[1], ROW_NUM_WIDTH)
                available_height == saturating_sub(area[2], 1)
                drawn == draw_grid(self, area[1], area[2])
            IN /\ drawn.viewport_size[2] =
                     Max(Min(LargestFit(self, available_width), COLS_SAFETY_LIMIT), 1)
               /\ drawn.viewport_size[1] = Max(available_height, 1)
    /\ pc = "poll" => viewport_size[1] >= 1 /\ viewport_size[2] >= 1

\* C25 witness: column 1 was widened twice, and a draw on the terminal wider
\* than fifty columns has set the viewport to two rows of fifty columns.
C25_Witness ==
    /\ pc = "poll"
    /\ nkeys = 2
    /\ column_widths = [c \in {1} |-> 14]
    /\ viewport_size = <<2, 50>>

\* a step that handled the quit command: Ctrl+W, with or without Shift,
\* in View
QuitStep ==
    /\ EventStep
    /\ mode = "View"
    /\ \E shift \in BOOLEAN :
         Handled([code |-> "w", ctrl |-> TRUE, shift |-> shift, press |-> TRUE], NoLib)

\* C26: should_quit changes only in a step that handles the quit command
\* in View, which sets it, and it is never cleared; the loop has ended
\* exactly when the flag is set, so it ends in the iteration that handled
\* the quit command; and once it has ended no key is handled and nothing
\* changes.
C26_QuitEndsLoop ==
    /\ [][ /\ should_quit' # should_quit => QuitStep
           /\ QuitStep => should_quit'
           /\ should_quit => should_quit'
           /\ pc = "done" => UNCHANGED vars ]_vars
    /\ [](should_quit <=> pc = "done")

\* C26 witness: a cell was copied, then the quit command ended the loop.
C26_Witness ==
    /\ pc = "done"
    /\ should_quit
    /\ nkeys = 2
    /\ clipboard = << <<"a">> >>

\* C27: in every reachable state, in every mode, the selection's moving
\* endpoint is the cursor: no step moves the cursor without updating the
\* selection, and none updates selection.end without moving the cursor.
C27_SelectionEndIsCursor ==
    selection.end = cursor

\* C27 witness: the selection was extended down and right from (1,1) and an
\* edit was started on its moving endpoint.
C27_Witness ==
    /\ mode = "Edit"
    /\ selection = [start |-> <<1, 1>>, end |-> <<2, 2>>]
    /\ cursor = <<2, 2>>

\* C28: after any sequence of mark commands, the mark that the
\* document-open decoder finds in the persisted style of each cell is the
\* mark the session's mark map holds for that cell.
C28_PersistedMarksEqualSession ==
    \A k \in MarkKeysOf(spreadsheet) :
        map_get_or(load_cell_marks_from_spreadsheet(spreadsheet), k, "None")
            = map_get_or(cell_marks, k, "None")

\* C29: at every draw the cursor's cell is among the rows and columns the
\* draw shows, with the viewport size that draw computed:
\* scroll_row < cursor_row <= scroll_row + viewport_rows and
\* scroll_col < cursor_col <= scroll_col + viewport_cols.
C29_CursorVisibleAtDraw ==
    pc = "poll" =>
        /\ scroll[1] < cursor[1] /\ cursor[1] <= scroll[1] + viewport_size[1]
        /\ scroll[2] < cursor[2] /\ cursor[2] <= scroll[2] + viewport_size[2]

\* C30: in every reachable state a single-cell move, extending or not,
\* changes each component of the scroll offset by at most one.
C30_ScrollStepsByOne ==
    pc = "poll" /\ mode = "View" =>
        \A d \in MoveDeltas : \A extend_selection \in BOOLEAN :
            LET moved == move_cursor(self, d[1], d[2], extend_selection) IN
            /\ moved.scroll[1] - scroll[1] \in {-1, 0, 1}
            /\ moved.scroll[2] - scroll[2] \in {-1, 0, 1}

====
